---- MODULE Spec2Model ----
(***************************************************************************)
(* Restaurant recommendation service: the free-text query parser           *)
(* (app/query_parser.py) and the record model's time validator             *)
(* (app/models.py).                                                        *)
(*                                                                         *)
(* A Python str is a sequence of one-character strings, so that regular    *)
(* expressions, str.lower, str.strip, int() and the f-string formatting    *)
(* are computed character by character as the code computes them.          *)
(* An Optional[str] is <<>> (None) or <<s>>.                               *)
(***************************************************************************)
EXTENDS Integers, Sequences, FiniteSets, TLC

\* ------------------------------------------------------------------------
\* Bounds of the model
\* ------------------------------------------------------------------------
\* Time tokens are generated with hours 0..MaxHour and minutes 0..MaxMinute,
\* so that out-of-range hours (24..) and minutes (60..) are among them.
MaxHour == 25
MaxMinute == 61
\* Raw strings over RawAlphabet up to this length are handed to the
\* normalizers as well (malformed tokens, surrounding blanks).
MaxRawLen == 5

\* ------------------------------------------------------------------------
\* Characters
\* ------------------------------------------------------------------------
\* The printable ASCII characters in code-point order: 32 (" ") to 95 ("_"),
\* and 97 ("a") to 126 ("~").
Ascii32 ==
  <<" ", "!", "\"", "#", "$", "%", "&", "'", "(", ")", "*", "+", ",", "-", ".", "/",
    "0", "1", "2", "3", "4", "5", "6", "7", "8", "9", ":", ";", "<", "=", ">", "?",
    "@", "A", "B", "C", "D", "E", "F", "G", "H", "I", "J", "K", "L", "M", "N", "O",
    "P", "Q", "R", "S", "T", "U", "V", "W", "X", "Y", "Z", "[", "\\", "]", "^", "_">>
Ascii97 ==
  <<"a", "b", "c", "d", "e", "f", "g", "h", "i", "j", "k", "l", "m", "n", "o",
    "p", "q", "r", "s", "t", "u", "v", "w", "x", "y", "z", "{", "|", "}", "~">>

\* chr(n)
Chr(n) == IF n <= 95 THEN Ascii32[n - 31] ELSE Ascii97[n - 96]

Chars == {Chr(n) : n \in (32..95) \cup (97..126)}

\* ord(c); the table is built once (@@ yields an enumerated function).
OrdMap == [c \in Chars |-> CHOOSE n \in (32..95) \cup (97..126) : Chr(n) = c] @@ <<>>
Ord(c) == OrdMap[c]

\* \d of the re module, on ASCII
IsDigit(c) == Ord(c) >= 48 /\ Ord(c) <= 57
\* \s of the re module and the characters str.strip() removes, on printable ASCII
IsSpace(c) == c = " "

\* str.lower() on one character
LowerChar(c) == IF Ord(c) >= 65 /\ Ord(c) <= 90 THEN Chr(Ord(c) + 32) ELSE c
\* str.lower()
RECURSIVE Lower(_)
Lower(s) == IF s = <<>> THEN <<>> ELSE <<LowerChar(Head(s))>> \o Lower(Tail(s))

\* str.strip()
RECURSIVE LStrip(_)
LStrip(s) == IF s # <<>> /\ IsSpace(Head(s)) THEN LStrip(Tail(s)) ELSE s
RECURSIVE RStrip(_)
RStrip(s) ==
  IF s # <<>> /\ IsSpace(s[Len(s)]) THEN RStrip(SubSeq(s, 1, Len(s) - 1)) ELSE s
Strip(s) == RStrip(LStrip(s))

\* sub in s
Contains(s, sub) ==
  \/ sub = <<>>
  \/ \E i \in 1..(Len(s) - Len(sub) + 1) :
       s[i] = sub[1] /\ SubSeq(s, i, i + Len(sub) - 1) = sub

\* The text lit stands in s at index i.
LitAt(s, i, lit) ==
  /\ i >= 1
  /\ i + Len(lit) - 1 <= Len(s)
  /\ lit # <<>> => s[i] = lit[1]
  /\ SubSeq(s, i, i + Len(lit) - 1) = lit

DigitAt(s, i) == i >= 1 /\ i <= Len(s) /\ IsDigit(s[i])
SpaceAt(s, i) == i >= 1 /\ i <= Len(s) /\ IsSpace(s[i])

\* int() of a string of decimal digits
RECURSIVE ToInt(_)
ToInt(ds) ==
  IF ds = <<>> THEN 0
  ELSE 10 * ToInt(SubSeq(ds, 1, Len(ds) - 1)) + (Ord(ds[Len(ds)]) - 48)

\* f"{n}": the number without zero padding.
FormatUnpadded(n) ==
  IF n < 10 THEN <<Chr(48 + n)>> ELSE <<Chr(48 + (n \div 10)), Chr(48 + (n % 10))>>

\* f"{n:02d}" for 0 <= n <= 99
Format02d(n) == <<Chr(48 + (n \div 10)), Chr(48 + (n % 10))>>

\* Python's comparison of two str values: a < b
RECURSIVE StrLess(_, _)
StrLess(a, b) ==
  IF b = <<>> THEN FALSE
  ELSE IF a = <<>> THEN TRUE
  ELSE IF Ord(Head(a)) # Ord(Head(b)) THEN Ord(Head(a)) < Ord(Head(b))
  ELSE StrLess(Tail(a), Tail(b))

\* a > b
StrGreater(a, b) == StrLess(b, a)

\* ------------------------------------------------------------------------
\* Regular-expression pieces
\* ------------------------------------------------------------------------
NoMatch == [hit |-> FALSE, g1 |-> <<>>, g2 |-> <<>>, end |-> 0]
Hit(a, b, e) == [hit |-> TRUE, g1 |-> a, g2 |-> b, end |-> e]

\* (\d{1,2}):(\d{2}) at index i of s; end is the index after the match.
\* The greedy \d{1,2} takes two digits when the colon follows them, else one.
ColonTimeAt(s, i) ==
  IF DigitAt(s, i) /\ DigitAt(s, i + 1) /\ LitAt(s, i + 2, <<":">>)
     /\ DigitAt(s, i + 3) /\ DigitAt(s, i + 4)
  THEN Hit(SubSeq(s, i, i + 1), SubSeq(s, i + 3, i + 4), i + 5)
  ELSE IF DigitAt(s, i) /\ LitAt(s, i + 1, <<":">>)
          /\ DigitAt(s, i + 2) /\ DigitAt(s, i + 3)
  THEN Hit(SubSeq(s, i, i), SubSeq(s, i + 2, i + 3), i + 4)
  ELSE NoMatch

\* (\d{2})(\d{2}) at index i of s
CompactTimeAt(s, i) ==
  IF DigitAt(s, i) /\ DigitAt(s, i + 1) /\ DigitAt(s, i + 2) /\ DigitAt(s, i + 3)
  THEN Hit(SubSeq(s, i, i + 1), SubSeq(s, i + 2, i + 3), i + 4)
  ELSE NoMatch

\* re.match(r"^(\d{1,2}):(\d{2})$", s) on a stripped s
ColonTimeFull(s) ==
  LET m == ColonTimeAt(s, 1) IN IF m.hit /\ m.end = Len(s) + 1 THEN m ELSE NoMatch

\* re.match(r"^(\d{2})(\d{2})$", s) on a stripped s
CompactTimeFull(s) ==
  LET m == CompactTimeAt(s, 1) IN IF m.hit /\ m.end = Len(s) + 1 THEN m ELSE NoMatch

\* ------------------------------------------------------------------------
\* Results
\* ------------------------------------------------------------------------
\* An exception: its class, the fixed text of its message and the values
\* formatted into the message. str(e) is the message.
NoErr == [type |-> "", msg |-> "", args |-> <<>>]
QueryParseError(msg, args) == [type |-> "QueryParseError", msg |-> msg, args |-> args]
ValueError(msg, args) == [type |-> "ValueError", msg |-> msg, args |-> args]
InvalidTimeFormat(tok) == QueryParseError("Invalid time format: {}", <<tok>>)
\* models.py raises ValueError with its own two messages
ModelBadFormat(tok) == ValueError("Invalid time format: {}. Use HH:MM or HHMM", <<tok>>)
ModelBadRange(tok) == ValueError("Invalid time: {}. Hour 0-23, minute 0-59", <<tok>>)

Unset == [st |-> "unset", val |-> <<>>, err |-> NoErr]
Ok(v) == [st |-> "ok", val |-> v, err |-> NoErr]
Raise(e) == [st |-> "err", val |-> <<>>, err |-> e]

\* ------------------------------------------------------------------------
\* normalize_time (query_parser.py) and Restaurant.validate_time (models.py)
\* ------------------------------------------------------------------------
\* The largest hour and minute normalize_time accepts.
HourMax == 23
MinuteMax == 59

\* normalize_time without the check of the minute.
normalize_time_NoMinuteCheck(time_str) ==
  LET s == Strip(time_str)
      mc == ColonTimeFull(s)
      m == IF mc.hit THEN mc ELSE CompactTimeFull(s)
      hour == ToInt(m.g1)
      minute == ToInt(m.g2)
  IN IF ~m.hit THEN Raise(InvalidTimeFormat(s))
     ELSE IF ~(0 <= hour /\ hour <= HourMax) THEN Raise(InvalidTimeFormat(s))
     ELSE Ok(Format02d(hour) \o <<":">> \o Format02d(minute))

normalize_time(time_str) ==
  LET s == Strip(time_str)
      mc == ColonTimeFull(s)
      m == IF mc.hit THEN mc ELSE CompactTimeFull(s)
      hour == ToInt(m.g1)
      minute == ToInt(m.g2)
  IN IF ~m.hit THEN Raise(InvalidTimeFormat(s))
     ELSE IF ~(0 <= hour /\ hour <= HourMax) THEN Raise(InvalidTimeFormat(s))
     ELSE IF ~(0 <= minute /\ minute <= MinuteMax) THEN Raise(InvalidTimeFormat(s))
     ELSE Ok(Format02d(hour) \o <<":">> \o Format02d(minute))

\* validate_time without its second regular expression (HHMM).
validate_time_ColonOnly(v) ==
  LET s == Strip(Strip(v))
      m == ColonTimeFull(s)
      hour == ToInt(m.g1)
      minute == ToInt(m.g2)
  IN IF ~m.hit THEN Raise(ModelBadFormat(s))
     ELSE IF ~(0 <= hour /\ hour <= 23 /\ 0 <= minute /\ minute <= 59)
     THEN Raise(ModelBadRange(s))
     ELSE Ok(Format02d(hour) \o <<":">> \o Format02d(minute))

\* The field arrives already stripped (str_strip_whitespace) and is stripped again.
validate_time(v) ==
  LET s == Strip(Strip(v))
      mc == ColonTimeFull(s)
      m == IF mc.hit THEN mc ELSE CompactTimeFull(s)
      hour == ToInt(m.g1)
      minute == ToInt(m.g2)
  IN IF ~m.hit THEN Raise(ModelBadFormat(s))
     ELSE IF ~(0 <= hour /\ hour <= 23 /\ 0 <= minute /\ minute <= 59)
     THEN Raise(ModelBadRange(s))
     ELSE Ok(Format02d(hour) \o <<":">> \o Format02d(minute))

\* ------------------------------------------------------------------------
\* Inputs of the normalizers
\* ------------------------------------------------------------------------
\* Decimal rendering used to WRITE the generated tokens: d1 is one digit
\* where the number has one, d2 always two digits.
DigitCh(n) == Ascii32[17 + n]
D2(n) == <<DigitCh(n \div 10), DigitCh(n % 10)>>
D1(n) == IF n < 10 THEN <<DigitCh(n)>> ELSE D2(n)

\* The three token shapes: "H:MM", "HH:MM", "HHMM".
Shapes == {"H:MM", "HH:MM", "HHMM"}
Token(shape, h, m) ==
  CASE shape = "H:MM" -> D1(h) \o <<":">> \o D2(m)
    [] shape = "HH:MM" -> D2(h) \o <<":">> \o D2(m)
    [] shape = "HHMM" -> D2(h) \o D2(m)

RawAlphabet == {"1", ":", "a", " "}
RECURSIVE SeqsUpTo(_, _)
SeqsUpTo(S, n) ==
  IF n = 0 THEN {<<>>}
  ELSE LET shorter == SeqsUpTo(S, n - 1)
       IN shorter \cup {Append(s, c) : s \in {t \in shorter : Len(t) = n - 1}, c \in S}
RawStrings == SeqsUpTo(RawAlphabet, MaxRawLen)

\* ------------------------------------------------------------------------
\* parse_vegetarian, parse_style
\* ------------------------------------------------------------------------
KW_vegetarian == <<"v", "e", "g", "e", "t", "a", "r", "i", "a", "n">>
KW_italian == <<"i", "t", "a", "l", "i", "a", "n">>
KW_asian == <<"a", "s", "i", "a", "n">>
KW_steakhouse == <<"s", "t", "e", "a", "k", "h", "o", "u", "s", "e">>
KW_mediterranean == <<"m", "e", "d", "i", "t", "e", "r", "r", "a", "n", "e", "a", "n">>
V_Italian == <<"I", "t", "a", "l", "i", "a", "n">>
V_Asian == <<"A", "s", "i", "a", "n">>
V_Steakhouse == <<"S", "t", "e", "a", "k", "h", "o", "u", "s", "e">>
V_Mediterranean == <<"M", "e", "d", "i", "t", "e", "r", "r", "a", "n", "e", "a", "n">>
S_yes == <<"y", "e", "s">>
S_no == <<"n", "o">>

\* The dict STYLES, in its insertion order, which is the order .items() yields.
STYLES ==
  << [key |-> KW_italian, value |-> V_Italian],
     [key |-> KW_asian, value |-> V_Asian],
     [key |-> KW_steakhouse, value |-> V_Steakhouse],
     [key |-> KW_mediterranean, value |-> V_Mediterranean] >>

parse_vegetarian(query) ==
  IF Contains(Lower(query), KW_vegetarian) THEN S_yes ELSE S_no

\* The index at which sub first stands in s, 0 when it does not.
FirstIndexOf(s, sub) ==
  LET at == {i \in 1..(Len(s) - Len(sub) + 1) : SubSeq(s, i, i + Len(sub) - 1) = sub}
  IN IF at = {} THEN 0 ELSE CHOOSE i \in at : \A j \in at : i <= j

\* parse_style returning the style whose keyword stands first in the text.
parse_style_ByPosition(query) ==
  LET query_lower == Lower(query)
      found == {k \in 1..Len(STYLES) : Contains(query_lower, STYLES[k].key)}
  IN IF found = {} THEN <<>>
     ELSE <<STYLES[CHOOSE k \in found : \A j \in found :
               FirstIndexOf(query_lower, STYLES[k].key)
                 <= FirstIndexOf(query_lower, STYLES[j].key)].value>>

\* The for loop over STYLES.items(): the first entry whose key is in the query.
parse_style(query) ==
  LET query_lower == Lower(query)
      found == {k \in 1..Len(STYLES) : Contains(query_lower, STYLES[k].key)}
  IN IF found = {} THEN <<>>
     ELSE <<STYLES[CHOOSE k \in found : \A j \in found : k <= j].value>>

\* ------------------------------------------------------------------------
\* parse_time_constraints
\* ------------------------------------------------------------------------
L_between == <<"b", "e", "t", "w", "e", "e", "n">>
L_and == <<"a", "n", "d">>
L_to == <<"t", "o">>
L_dash == <<"-">>
L_at == <<"a", "t">>
L_open == <<"o", "p", "e", "n">>
L_opens == <<"o", "p", "e", "n", "s">>
L_opening == <<"o", "p", "e", "n", "i", "n", "g">>
L_close == <<"c", "l", "o", "s", "e">>
L_closes == <<"c", "l", "o", "s", "e", "s">>
L_closing == <<"c", "l", "o", "s", "i", "n", "g">>

\* \s+ at index i of s: the index after the run of blanks, or 0 when there is none.
RECURSIVE AfterSpaces(_, _)
AfterSpaces(s, i) == IF SpaceAt(s, i) THEN AfterSpaces(s, i + 1) ELSE i
Spaces1(s, i) == IF SpaceAt(s, i) THEN AfterSpaces(s, i) ELSE 0

\* (\d{1,2}:\d{2}) or (\d{4}) at index i, the whole token as the one group.
TimeTokenAt(tok, s, i) ==
  LET m == IF tok = "colon" THEN ColonTimeAt(s, i) ELSE CompactTimeAt(s, i)
  IN IF m.hit THEN Hit(SubSeq(s, i, m.end - 1), <<>>, m.end) ELSE NoMatch

\* The four regular expressions of between_patterns, in list order:
\* the token shape of both groups, the alternatives between the groups, and
\* whether \s+ stands on both sides of them.
between_patterns ==
  << [tok |-> "colon", links |-> <<L_and, L_to>>, spaced |-> TRUE],
     [tok |-> "compact", links |-> <<L_and, L_to, L_dash>>, spaced |-> TRUE],
     [tok |-> "compact", links |-> <<L_dash>>, spaced |-> FALSE],
     [tok |-> "colon", links |-> <<L_dash>>, spaced |-> FALSE] >>

\* The least element of a set of indices, 0 for the empty set.
MinOf(S) == IF S = {} THEN 0 ELSE CHOOSE i \in S : \A j \in S : i <= j

\* One of between_patterns tried at index i of s, piece by piece:
\* "between", \s+, the first token, the link (between \s+ where the pattern
\* has them), the second token. An index 0 says the piece before failed.
BetweenClose(a, b) == IF b.hit THEN Hit(a.g1, b.g1, b.end) ELSE NoMatch
BetweenSecond(p, s, a, r) ==
  IF r = 0 THEN NoMatch ELSE BetweenClose(a, TimeTokenAt(p.tok, s, r))
BetweenAfterLink(p, s, a, l) ==
  IF l = 0 THEN NoMatch
  ELSE BetweenSecond(p, s, a, IF p.spaced THEN Spaces1(s, l) ELSE l)
\* (?:and|to|-): the first alternative that stands at index k
LinkChosen(p, s, k) == MinOf({n \in 1..Len(p.links) : LitAt(s, k, p.links[n])})
LinkEnd(p, s, k, n) == IF k = 0 \/ n = 0 THEN 0 ELSE k + Len(p.links[n])
BetweenLink(p, s, a, k) ==
  BetweenAfterLink(p, s, a, LinkEnd(p, s, k, LinkChosen(p, s, k)))
BetweenAfterFirst(p, s, a) ==
  IF ~a.hit THEN NoMatch
  ELSE BetweenLink(p, s, a, IF p.spaced THEN Spaces1(s, a.end) ELSE a.end)
BetweenFirst(p, s, j) ==
  IF j = 0 THEN NoMatch ELSE BetweenAfterFirst(p, s, TimeTokenAt(p.tok, s, j))
BetweenAt(p, s, i) ==
  IF ~LitAt(s, i, L_between) THEN NoMatch
  ELSE BetweenFirst(p, s, Spaces1(s, i + Len(L_between)))

\* re.search: the match at the leftmost index that has one.
BetweenAtOrNone(p, s, i) == IF i = 0 THEN NoMatch ELSE BetweenAt(p, s, i)
LeftmostBetween(p, s) ==
  BetweenAtOrNone(p, s, MinOf({i \in 1..Len(s) : BetweenAt(p, s, i).hit}))

\* The regular expressions of opens_patterns and closes_patterns:
\* (?:opens?|opening)\s+(?:at\s+)?(TOKEN), verbs in the order the regex tries them.
opens_patterns ==
  << [verbs |-> <<L_opens, L_open, L_opening>>, tok |-> "colon"],
     [verbs |-> <<L_opens, L_open, L_opening>>, tok |-> "compact"] >>
closes_patterns ==
  << [verbs |-> <<L_closes, L_close, L_closing>>, tok |-> "colon"],
     [verbs |-> <<L_closes, L_close, L_closing>>, tok |-> "compact"] >>

\* \s+(?:at\s+)?(TOKEN) at index e of s: j is the index after the blanks,
\* j2 the index after "at" and its blanks (0 when they do not stand there).
AtTimeChoice(tok, s, j, withAt) ==
  IF withAt.hit THEN withAt ELSE TimeTokenAt(tok, s, j)
AtTimeFrom(tok, s, j, j2) ==
  AtTimeChoice(tok, s, j, IF j2 = 0 THEN NoMatch ELSE TimeTokenAt(tok, s, j2))
AtTimeAfterSpaces(tok, s, j) ==
  IF j = 0 THEN NoMatch
  ELSE AtTimeFrom(tok, s, j,
                  IF LitAt(s, j, L_at) THEN Spaces1(s, j + Len(L_at)) ELSE 0)
AtTimeAt(tok, s, e) == AtTimeAfterSpaces(tok, s, Spaces1(s, e))

\* (?:opens?|opening) and the rest at index i: the first verb after which
\* the rest matches.
VerbChosen(p, s, i) ==
  MinOf({n \in 1..Len(p.verbs) :
           LitAt(s, i, p.verbs[n]) /\ AtTimeAt(p.tok, s, i + Len(p.verbs[n])).hit})
VerbTimeWith(p, s, i, n) ==
  IF n = 0 THEN NoMatch ELSE AtTimeAt(p.tok, s, i + Len(p.verbs[n]))
VerbTimeAt(p, s, i) == VerbTimeWith(p, s, i, VerbChosen(p, s, i))

VerbTimeAtOrNone(p, s, i) == IF i = 0 THEN NoMatch ELSE VerbTimeAt(p, s, i)
LeftmostVerbTime(p, s) ==
  VerbTimeAtOrNone(p, s, MinOf({i \in 1..Len(s) : VerbTimeAt(p, s, i).hit}))

MidnightCrossing(start, end) ==
  QueryParseError("Time ranges crossing midnight are not supported: {} to {}",
                  <<start, end>>)

\* The tuple (open_by, close_by, use_current_time)
TimeTuple(o, c, u) == [open_by |-> o, close_by |-> c, use_current_time |-> u]

\* The range check swapping the endpoints instead of raising.
CheckRange_Swapping(start, end) ==
  IF start.st = "err" THEN start
  ELSE IF end.st = "err" THEN end
  ELSE IF StrGreater(start.val, end.val)
  THEN Ok(TimeTuple(<<end.val>>, <<start.val>>, FALSE))
  ELSE Ok(TimeTuple(<<start.val>>, <<end.val>>, FALSE))

\* start and end as normalize_time left them: the first of the two that
\* raised, else the midnight check and the returned tuple.
CheckRange(start, end) ==
  IF start.st = "err" THEN start
  ELSE IF end.st = "err" THEN end
  ELSE IF StrGreater(start.val, end.val)
  THEN Raise(MidnightCrossing(start.val, end.val))
  ELSE Ok(TimeTuple(<<start.val>>, <<end.val>>, FALSE))

\* The body of "for pattern in between_patterns" for the first pattern that matches.
BetweenResult(m) == CheckRange(normalize_time(m.g1), normalize_time(m.g2))

\* "opens at T" taken as the zero-width range T to T.
OpenByOnly_AsRange(time) ==
  IF time.st = "err" THEN time ELSE Ok(TimeTuple(<<time.val>>, <<time.val>>, FALSE))

OpenByOnly(time) ==
  IF time.st = "err" THEN time ELSE Ok(TimeTuple(<<time.val>>, <<>>, FALSE))
CloseByOnly(time) ==
  IF time.st = "err" THEN time ELSE Ok(TimeTuple(<<>>, <<time.val>>, FALSE))
OpensResult(m) == OpenByOnly(normalize_time(m.g1))
ClosesResult(m) == CloseByOnly(normalize_time(m.g1))

\* The first pattern of a list that matches, 0 when none does.
FirstBetween(s) ==
  MinOf({n \in 1..Len(between_patterns) : LeftmostBetween(between_patterns[n], s).hit})
FirstVerbTime(ps, s) ==
  MinOf({n \in 1..Len(ps) : LeftmostVerbTime(ps[n], s).hit})

\* The three loops with the first matching pattern of each list (0: none).
TimeConstraints_OpensFirst(q, nb, no, nc) ==
  IF no # 0 THEN OpensResult(LeftmostVerbTime(opens_patterns[no], q))
  ELSE IF nb # 0 THEN BetweenResult(LeftmostBetween(between_patterns[nb], q))
  ELSE IF nc # 0 THEN ClosesResult(LeftmostVerbTime(closes_patterns[nc], q))
  ELSE Ok(TimeTuple(<<>>, <<>>, TRUE))

TimeConstraints(q, nb, no, nc) ==
  IF nb # 0 THEN BetweenResult(LeftmostBetween(between_patterns[nb], q))
  ELSE IF no # 0 THEN OpensResult(LeftmostVerbTime(opens_patterns[no], q))
  ELSE IF nc # 0 THEN ClosesResult(LeftmostVerbTime(closes_patterns[nc], q))
  ELSE Ok(TimeTuple(<<>>, <<>>, TRUE))

TimeConstraintsOfLower(query_lower) ==
  TimeConstraints(query_lower, FirstBetween(query_lower),
                  FirstVerbTime(opens_patterns, query_lower),
                  FirstVerbTime(closes_patterns, query_lower))

parse_time_constraints(query) == TimeConstraintsOfLower(Lower(query))

\* ------------------------------------------------------------------------
\* parse_query, build_mongo_filter, process_query
\* ------------------------------------------------------------------------
QueryIsEmpty == QueryParseError("query is empty", <<>>)

\* The ParsedQuery of a stripped query q, or what parse_time_constraints raised.
ParsedQuery(q, tc) ==
  IF tc.st = "err" THEN tc
  ELSE Ok([vegetarian |-> parse_vegetarian(q), style |-> parse_style(q),
           open_by |-> tc.val.open_by, close_by |-> tc.val.close_by,
           use_current_time |-> tc.val.use_current_time, raw_query |-> q])
ParseStripped(q) == ParsedQuery(q, parse_time_constraints(q))

parse_query(query) ==
  IF query = <<>> \/ Strip(query) = <<>> THEN Raise(QueryIsEmpty)
  ELSE ParseStripped(Strip(query))

\* datetime.now().strftime("%H:%M") when the local clock shows h:m
get_current_time(h, m) == Format02d(h) \o <<":">> \o Format02d(m)

\* A comparison operand of the filter: {"$lte": v} or {"$gte": v}
Cmp(op, v) == [op |-> op, v |-> v]

\* build_mongo_filter filling a missing explicit bound with the current time.
build_mongo_filter_FillsWithNow(parsed, now) ==
  LET f1 == ("vegetarian" :> parsed.vegetarian)
      f2 == IF parsed.style # <<>> /\ parsed.style[1] # <<>> THEN f1 @@ ("style" :> parsed.style[1]) ELSE f1
      o == IF parsed.open_by # <<>> THEN parsed.open_by[1] ELSE now
      c == IF parsed.close_by # <<>> THEN parsed.close_by[1] ELSE now
  IN f2 @@ ("openHour" :> Cmp("$lte", o)) @@ ("closeHour" :> Cmp("$gte", c))

\* The dict is a function from its keys; now is the clock reading it would use.
build_mongo_filter(parsed, now) ==
  LET f1 == ("vegetarian" :> parsed.vegetarian)
      f2 == IF parsed.style # <<>> /\ parsed.style[1] # <<>> THEN f1 @@ ("style" :> parsed.style[1]) ELSE f1
  IN IF parsed.use_current_time
     THEN f2 @@ ("openHour" :> Cmp("$lte", now)) @@ ("closeHour" :> Cmp("$gte", now))
     ELSE
       LET f3 == IF parsed.open_by # <<>> /\ parsed.open_by[1] # <<>>
                 THEN f2 @@ ("openHour" :> Cmp("$lte", parsed.open_by[1])) ELSE f2
       IN IF parsed.close_by # <<>> /\ parsed.close_by[1] # <<>>
          THEN f3 @@ ("closeHour" :> Cmp("$gte", parsed.close_by[1])) ELSE f3

\* The dict process_query returns; a None is <<>>, "error" holds str(e).
ResultDict(f, p, e) == [filter |-> f, parsed |-> p, error |-> e]

\* process_query keeping a filter of what was parsed when the time step fails.
ProcessParsed_KeepsPartial(query, parsed, now) ==
  IF parsed.st = "err"
  THEN Ok(ResultDict(IF Strip(query) = <<>> THEN <<>>
                     ELSE <<("vegetarian" :> parse_vegetarian(Strip(query)))>>,
                     <<>>, <<[msg |-> parsed.err.msg, args |-> parsed.err.args]>>))
  ELSE Ok(ResultDict(<<build_mongo_filter(parsed.val, now)>>, <<parsed.val>>, <<>>))

\* try ... except QueryParseError: any other exception leaves process_query.
ProcessParsed(query, parsed, now) ==
  IF parsed.st = "err"
  THEN IF parsed.err.type = "QueryParseError"
       THEN Ok(ResultDict(<<>>, <<>>, <<[msg |-> parsed.err.msg, args |-> parsed.err.args]>>))
       ELSE Raise(parsed.err)
  ELSE Ok(ResultDict(<<build_mongo_filter(parsed.val, now)>>, <<parsed.val>>, <<>>))

process_query(query, now) == ProcessParsed(query, parse_query(query), now)

\* ------------------------------------------------------------------------
\* Inputs of the parser: queries written from phrases
\* ------------------------------------------------------------------------
\* At most this many free words stand in a query of words only.
MaxWords == 3

W_Vegetarian == <<"V", "e", "g", "e", "t", "a", "r", "i", "a", "n">>
W_ITALIAN == <<"I", "T", "A", "L", "I", "A", "N">>
W_restaurant == <<"r", "e", "s", "t", "a", "u", "r", "a", "n", "t">>
W_AND == <<"A", "N", "D">>

\* The free words; the empty word leaves leading, trailing or doubled blanks.
Words ==
  {<<>>, KW_vegetarian, W_Vegetarian, W_ITALIAN, KW_asian, KW_steakhouse,
   KW_mediterranean, W_restaurant}

NoTok == [shape |-> "none", h |-> 0, m |-> 0]
Tok(shape, h, m) == [shape |-> shape, h |-> h, m |-> m]
TokText(t) == IF t.shape = "none" THEN <<>> ELSE Token(t.shape, t.h, t.m)

\* What stands between the two tokens of a "between" phrase.
Links == {"and", "to", "AND", "dash", "spaced_dash"}
LinkText(l) ==
  CASE l = "and" -> <<" ">> \o L_and \o <<" ">>
    [] l = "to" -> <<" ", " ">> \o L_to \o <<" ">>
    [] l = "AND" -> <<" ">> \o W_AND \o <<" ">>
    [] l = "dash" -> L_dash
    [] l = "spaced_dash" -> <<" ">> \o L_dash \o <<" ">>
    [] OTHER -> <<>>

\* A phrase: a free word, or "between A <link> B", or "<verb> [at] A".
WordPhrase(w) ==
  [kind |-> "word", text |-> w, a |-> NoTok, link |-> "", b |-> NoTok, at |-> FALSE]
BetweenPhrase(a, l, b) ==
  [kind |-> "between", text |-> L_between, a |-> a, link |-> l, b |-> b, at |-> FALSE]
OpensPhrase(verb, at, a) ==
  [kind |-> "opens", text |-> verb, a |-> a, link |-> "", b |-> NoTok, at |-> at]
ClosesPhrase(verb, at, a) ==
  [kind |-> "closes", text |-> verb, a |-> a, link |-> "", b |-> NoTok, at |-> at]

PhraseText(p) ==
  CASE p.kind = "word" -> p.text
    [] p.kind = "between" ->
         p.text \o <<" ">> \o TokText(p.a) \o LinkText(p.link) \o TokText(p.b)
    [] OTHER ->
         p.text \o <<" ">> \o (IF p.at THEN L_at \o <<" ">> ELSE <<>>) \o TokText(p.a)

\* The phrases joined by single blanks.
RECURSIVE JoinPhrases(_)
JoinPhrases(ps) ==
  IF ps = <<>> THEN <<>>
  ELSE IF Len(ps) = 1 THEN PhraseText(ps[1])
  ELSE PhraseText(ps[1]) \o <<" ">> \o JoinPhrases(Tail(ps))

\* Tokens of the single-phrase queries, and the few of the two-phrase queries.
TokHours == {9, 10, 24}
TokMinutes == {0, 30, 60}
QueryTokens ==
  {Tok(sh, h, m) : sh \in {"HH:MM", "HHMM"}, h \in TokHours, m \in TokMinutes}
    \cup {Tok("H:MM", h, m) : h \in {h \in TokHours : h < 10}, m \in TokMinutes}
FewTokens == {Tok("HH:MM", 10, 0), Tok("HHMM", 9, 30), Tok("H:MM", 9, 60)}

BetweenPhrases(toks, links) ==
  {BetweenPhrase(a, l, b) : a \in toks, l \in links, b \in toks}
OpensPhrases(toks) ==
  {OpensPhrase(v, at, a) : v \in {L_open, L_opens, L_opening}, at \in BOOLEAN, a \in toks}
ClosesPhrases(toks) ==
  {ClosesPhrase(v, at, a) : v \in {L_close, L_closes, L_closing}, at \in BOOLEAN, a \in toks}

OnePhrases ==
  BetweenPhrases(QueryTokens, Links) \cup OpensPhrases(QueryTokens)
    \cup ClosesPhrases(QueryTokens)
FewPhrases ==
  BetweenPhrases(FewTokens, {"and", "dash"})
    \cup {OpensPhrase(L_opens, TRUE, a) : a \in FewTokens}
    \cup {ClosesPhrase(L_closing, FALSE, a) : a \in FewTokens}

\* The words that may stand before and after a time phrase.
Around ==
  {<< <<>>, <<>> >>, << <<WordPhrase(KW_vegetarian)>>, <<>> >>,
   << <<>>, <<WordPhrase(W_ITALIAN)>> >>}

\* The queries: words only; one time phrase among words; two time phrases.
WordQueries ==
  {[i \in 1..Len(ws) |-> WordPhrase(ws[i])] : ws \in SeqsUpTo(Words, MaxWords)}
OnePhraseQueries == {ar[1] \o <<p>> \o ar[2] : ar \in Around, p \in OnePhrases}
TwoPhraseQueries == {<<p1, p2>> : p1 \in FewPhrases, p2 \in FewPhrases}
QueryParts == WordQueries \cup OnePhraseQueries \cup TwoPhraseQueries

\* The readings of the local clock: hour and minute.
ClockReadings == {<<0, 0>>, <<9, 5>>, <<23, 59>>}

VARIABLES
  time_str,    \* the str handed to normalize_time and validate_time
  tok_shape,   \* how time_str was written: a shape of Shapes, or "raw"
  tok_hour,    \* the hour and minute written into a shaped time_str
  tok_minute,
  norm_ret,    \* normalize_time(time_str)
  again_ret,   \* normalize_time applied to the value norm_ret holds
  field_ret,   \* Restaurant.validate_time(time_str)
  parts,       \* the phrases the query was written from
  query,       \* the query string
  called,      \* which function of the parser was called on query, "" before
  veg_ret,     \* parse_vegetarian(query)
  style_ret,   \* parse_style(query)
  time_ret,    \* parse_time_constraints(query)
  proc_ret,    \* process_query(query)
  clock_read,  \* <<>>, or <<now>> once get_current_time() was called
  a_tok,       \* two tokens whose normalized values are compared
  b_tok,
  a_out,       \* <<>>, or <<normalize_time(a)>>
  b_out,
  cmp_ret,     \* <<>>, or <<[lt |-> a < b, eq |-> a == b, gt |-> a > b]>>
  rest_absent, \* TRUE when the /rest request carries no query parameter
  rest_faults, \* the logging call sites whose call raises during the request
  rest_pc,     \* "idle", "await_find" (suspended in find_restaurants), "done"
  rest_calls,  \* the functions the handler has invoked, in order
  rest_log,    \* the entries the logger has written
  rest_result, \* what process_query gave the handler
  rest_found,  \* <<>>, or <<the list find_restaurants returned>>
  rest_exc,    \* <<>>, or <<the exception find_restaurants raised>>
  rest_response, \* <<>>, or <<the response of the handler>>
  extractors,  \* the extractors a direct call of process_query has run
  load_file,   \* the file the loader is run on: its kind and its entries
  store,       \* the records of the collection, in insertion order
  store_before, \* the collection as it was before the run
  load_pc,     \* "start", "connecting", "loop", "inserting", "exit"
  load_index,  \* the index of the entry the loop is at
  stats,       \* the counters of load_restaurants
  pending,     \* <<>>, or <<the record handed to insert_restaurant>>
  load_events, \* what the run has done, in order
  reported,    \* the errors handed to log_validation_error, in order
  exit_code,   \* <<>>, or <<the code main exits with>>
  module_state, \* the globals of the module query_parser
  invocations  \* the running calls of process_query: the locals of each

norm_vars == <<time_str, tok_shape, tok_hour, tok_minute, norm_ret, again_ret, field_ret>>
query_vars == <<parts, query, called, veg_ret, style_ret, time_ret, proc_ret, clock_read>>
cmp_vars == <<a_tok, b_tok, a_out, b_out, cmp_ret>>
rest_vars ==
  <<rest_absent, rest_faults, rest_pc, rest_calls, rest_log, rest_result,
    rest_found, rest_exc, rest_response, extractors>>
load_vars ==
  <<load_file, store, store_before, load_pc, load_index, stats, pending,
    load_events, reported, exit_code>>
conc_vars == <<module_state, invocations>>
vars == <<norm_vars, query_vars, cmp_vars, rest_vars, load_vars, conc_vars>>

\* No two values are being compared.
CmpIdle ==
  /\ a_tok = NoTok
  /\ b_tok = NoTok
  /\ a_out = <<>>
  /\ b_out = <<>>
  /\ cmp_ret = <<>>

\* process_query is not being called side by side.
ConcIdle ==
  /\ module_state = [STYLES |-> STYLES]
  /\ invocations = <<>>

\* The loader is not run.
LoadIdle ==
  /\ load_file = [kind |-> "none", entries |-> <<>>]
  /\ store = <<>>
  /\ store_before = <<>>
  /\ load_pc = "none"
  /\ load_index = 0
  /\ stats = [inserted |-> 0, skipped |-> 0, invalid |-> 0, total |-> 0]
  /\ pending = <<>>
  /\ load_events = <<>>
  /\ reported = <<>>
  /\ exit_code = <<>>

\* No /rest request is being handled.
RestIdle ==
  /\ rest_absent = FALSE
  /\ rest_faults = {}
  /\ rest_pc = "idle"
  /\ rest_calls = <<>>
  /\ rest_log = <<>>
  /\ rest_result = Unset
  /\ rest_found = <<>>
  /\ rest_exc = <<>>
  /\ rest_response = <<>>
  /\ extractors = <<>>

\* No query is being parsed.
QueryIdle ==
  /\ parts = <<>>
  /\ query = <<>>
  /\ called = ""
  /\ veg_ret = <<>>
  /\ style_ret = <<>>
  /\ time_ret = Unset
  /\ proc_ret = Unset
  /\ clock_read = <<>>

\* No token is being normalized.
NormIdle ==
  /\ time_str = <<>>
  /\ tok_shape = "raw"
  /\ tok_hour = 0
  /\ tok_minute = 0
  /\ norm_ret = Unset
  /\ again_ret = Unset
  /\ field_ret = Unset

\* ------------------------------------------------------------------------
\* The normalizers applied to tokens
\* ------------------------------------------------------------------------
InitNorm ==
  /\ \/ /\ tok_shape \in Shapes
        /\ tok_hour \in 0..MaxHour
        /\ tok_minute \in 0..MaxMinute
        /\ tok_shape = "H:MM" => tok_hour < 10
        /\ time_str = Token(tok_shape, tok_hour, tok_minute)
     \/ /\ tok_shape = "raw"
        /\ tok_hour = 0
        /\ tok_minute = 0
        /\ time_str \in RawStrings
  /\ norm_ret = Unset
  /\ again_ret = Unset
  /\ field_ret = Unset
  /\ QueryIdle
  /\ CmpIdle
  /\ RestIdle
  /\ LoadIdle
  /\ ConcIdle

\* A caller normalizes a token.
CallNormalizeTime ==
  /\ norm_ret.st = "unset"
  /\ norm_ret' = normalize_time(time_str)
  /\ UNCHANGED <<time_str, tok_shape, tok_hour, tok_minute, again_ret, field_ret>>
  /\ UNCHANGED <<query_vars, cmp_vars, rest_vars, load_vars, conc_vars>>

\* A caller normalizes a value that normalize_time returned.
CallNormalizeAgain ==
  /\ norm_ret.st = "ok"
  /\ again_ret.st = "unset"
  /\ again_ret' = normalize_time(norm_ret.val)
  /\ UNCHANGED <<time_str, tok_shape, tok_hour, tok_minute, norm_ret, field_ret>>
  /\ UNCHANGED <<query_vars, cmp_vars, rest_vars, load_vars, conc_vars>>

\* A record is built with time_str as its openHour or closeHour.
CallValidateTime ==
  /\ field_ret.st = "unset"
  /\ field_ret' = validate_time(time_str)
  /\ UNCHANGED <<time_str, tok_shape, tok_hour, tok_minute, norm_ret, again_ret>>
  /\ UNCHANGED <<query_vars, cmp_vars, rest_vars, load_vars, conc_vars>>

NextNorm == CallNormalizeTime \/ CallNormalizeAgain \/ CallValidateTime

SpecNorm == InitNorm /\ [][NextNorm]_vars

\* ------------------------------------------------------------------------
\* Two normalized times compared as the parser and the filter compare them
\* ------------------------------------------------------------------------
\* Minutes of the compared times; every hour 0..HourMax is taken.
CmpMinutes == {0, 1, 9, 10, 59}
CmpTokensA ==
  {Tok(sh, h, m) : sh \in {"HH:MM", "HHMM"}, h \in 0..23, m \in CmpMinutes}
    \cup {Tok("H:MM", h, m) : h \in 0..9, m \in CmpMinutes}
CmpTokensB == {Tok("HH:MM", h, m) : h \in 0..23, m \in CmpMinutes}

InitCmp ==
  /\ a_tok \in CmpTokensA
  /\ b_tok \in CmpTokensB
  /\ a_out = <<>>
  /\ b_out = <<>>
  /\ cmp_ret = <<>>
  /\ NormIdle
  /\ QueryIdle
  /\ RestIdle
  /\ LoadIdle
  /\ ConcIdle

\* start = normalize_time(...); end = normalize_time(...)
NormalizeBoth ==
  /\ a_out = <<>>
  /\ normalize_time(TokText(a_tok)).st = "ok"
  /\ normalize_time(TokText(b_tok)).st = "ok"
  /\ a_out' = <<normalize_time(TokText(a_tok)).val>>
  /\ b_out' = <<normalize_time(TokText(b_tok)).val>>
  /\ UNCHANGED <<a_tok, b_tok, cmp_ret, norm_vars, query_vars, rest_vars, load_vars, conc_vars>>

\* start > end of parse_time_constraints, and the store's $lte / $gte on strings
CompareTimes ==
  /\ a_out # <<>>
  /\ cmp_ret = <<>>
  /\ cmp_ret' = <<[lt |-> StrLess(a_out[1], b_out[1]),
                   eq |-> a_out[1] = b_out[1],
                   gt |-> StrGreater(a_out[1], b_out[1])]>>
  /\ UNCHANGED <<a_tok, b_tok, a_out, b_out, norm_vars, query_vars, rest_vars, load_vars, conc_vars>>

NextCmp == NormalizeBoth \/ CompareTimes

SpecCmp == InitCmp /\ [][NextCmp]_vars

\* ------------------------------------------------------------------------
\* The parser applied to queries
\* ------------------------------------------------------------------------
Init ==
  /\ parts \in QueryParts
  /\ query = JoinPhrases(parts)
  /\ called = ""
  /\ veg_ret = <<>>
  /\ style_ret = <<>>
  /\ time_ret = Unset
  /\ proc_ret = Unset
  /\ clock_read = <<>>
  /\ NormIdle
  /\ CmpIdle
  /\ RestIdle
  /\ LoadIdle
  /\ ConcIdle

CallParseVegetarian ==
  /\ called = ""
  /\ called' = "parse_vegetarian"
  /\ veg_ret' = <<parse_vegetarian(query)>>
  /\ UNCHANGED <<parts, query, style_ret, time_ret, proc_ret, clock_read>>
  /\ UNCHANGED <<norm_vars, cmp_vars, rest_vars, load_vars, conc_vars>>

CallParseStyle ==
  /\ called = ""
  /\ called' = "parse_style"
  /\ style_ret' = <<parse_style(query)>>
  /\ UNCHANGED <<parts, query, veg_ret, time_ret, proc_ret, clock_read>>
  /\ UNCHANGED <<norm_vars, cmp_vars, rest_vars, load_vars, conc_vars>>

CallParseTimeConstraints ==
  /\ called = ""
  /\ called' = "parse_time_constraints"
  /\ time_ret' = parse_time_constraints(query)
  /\ UNCHANGED <<parts, query, veg_ret, style_ret, proc_ret, clock_read>>
  /\ UNCHANGED <<norm_vars, cmp_vars, rest_vars, load_vars, conc_vars>>

\* process_query; the clock is read only where build_mongo_filter reads it.
CallProcessQuery ==
  /\ called = ""
  /\ called' = "process_query"
  /\ \E c \in ClockReadings :
       /\ proc_ret' = process_query(query, get_current_time(c[1], c[2]))
       /\ clock_read' = IF proc_ret'.st = "ok" /\ proc_ret'.val.parsed # <<>>
                           /\ proc_ret'.val.parsed[1].use_current_time
                        THEN <<get_current_time(c[1], c[2])>> ELSE <<>>
  /\ UNCHANGED <<parts, query, veg_ret, style_ret, time_ret>>
  /\ UNCHANGED <<norm_vars, cmp_vars, rest_vars, load_vars, conc_vars>>

Next ==
  CallParseVegetarian \/ CallParseStyle \/ CallParseTimeConstraints \/ CallProcessQuery

Spec == Init /\ [][Next]_vars

\* ------------------------------------------------------------------------
\* The /rest handler: get_recommendations of main.py
\* ------------------------------------------------------------------------
\* The call sites of the logger during a request: safe_log of the incoming
\* request, safe_log of the completed request, the logger call of
\* process_query, safe_log of the except branch.
LogSites == {"incoming", "completed", "parser", "error"}

\* What a failing logging call raises.
LoggerError == [type |-> "OSError", msg |-> "log stream closed", args |-> <<>>]

\* safe_log: the entry is written, or the failure of the call is discarded.
SafeLog(log, entry, raises) == IF raises THEN log ELSE Append(log, entry)
LogEntry(message, level, result_type) ==
  [message |-> message, level |-> level, result_type |-> result_type]
Incoming == LogEntry("Incoming request", "info", "")
Completed(result_type) == LogEntry("Request completed", "info", result_type)
RequestError == LogEntry("Request error: {}", "error", "")

\* The extractors parse_query runs on a query, in order.
ExtractorsRun(q) ==
  IF q = <<>> \/ Strip(q) = <<>> THEN <<>>
  ELSE <<"parse_vegetarian", "parse_style", "parse_time_constraints">>

\* process_query with its logger call: logger.info after the filter is
\* built, logger.warning in the except branch; neither is guarded, so what
\* the logger raises leaves process_query.
ProcessQueryLogging(q, now, logger_raises) ==
  IF logger_raises THEN Raise(LoggerError) ELSE process_query(q, now)

\* str(e) of an exception, and the value of "restaurantRecommendation": a
\* str or a list of records.
Msg(text, args) == [msg |-> text, args |-> args]
StrOf(e) == Msg(e.msg, e.args)
StrBody(m) == [kind |-> "str", str |-> m, list |-> <<>>]
ListBody(rs) == [kind |-> "list", str |-> Msg("", <<>>), list |-> rs]
Response(status, body) == [status |-> status, body |-> body]

\* The except branch: JSONResponse(500, f"Internal error: {str(e)}")
InternalError(e) == Response(500, StrBody(Msg("Internal error: {}", <<StrOf(e)>>)))

\* if not query or not query.strip(), query being None when absent
RestEmpty_AbsentOnly(query_opt) == query_opt = <<>>

RestEmpty(query_opt) ==
  query_opt = <<>> \/ query_opt[1] = <<>> \/ Strip(query_opt[1]) = <<>>

\* The handler after a step: returned, or suspended in find_restaurants.
RestDone(calls, log, result, response) ==
  [pc |-> "done", calls |-> calls, log |-> log, result |-> result,
   response |-> <<response>>]
RestAwait(calls, log, result) ==
  [pc |-> "await_find", calls |-> calls, log |-> log, result |-> result,
   response |-> <<>>]

\* The empty-query branch.
RestEmptyQuery(log, faults) ==
  RestDone(<<>>, SafeLog(log, Completed("empty_query"), "completed" \in faults),
           Unset, Response(200, StrBody(Msg("query is empty", <<>>))))

\* The handler reading the store whatever process_query returned.
RestAfterParse_AlwaysReads(calls, log, result, faults) ==
  IF result.st = "err"
  THEN RestDone(calls, SafeLog(log, RequestError, "error" \in faults), result,
                InternalError(result.err))
  ELSE RestAwait(Append(calls, "find_restaurants"), log, result)

\* result = process_query(query) onwards: what process_query raised goes to
\* the except branch, a parse error is returned as the message, otherwise
\* find_restaurants is awaited.
RestAfterParse(calls, log, result, faults) ==
  IF result.st = "err"
  THEN RestDone(calls, SafeLog(log, RequestError, "error" \in faults), result,
                InternalError(result.err))
  ELSE IF result.val.error # <<>>
  THEN RestDone(calls, SafeLog(log, Completed("parse_error"), "completed" \in faults),
                result, Response(200, StrBody(result.val.error[1])))
  ELSE RestAwait(Append(calls, "find_restaurants"), log, result)

RestParse(q, now, log, faults) ==
  RestAfterParse(<<"process_query">> \o ExtractorsRun(q), log,
                 ProcessQueryLogging(q, now, "parser" \in faults), faults)

\* get_recommendations up to its return or its await.
RestHandle(query_opt, now, faults) ==
  IF RestEmpty(query_opt)
  THEN RestEmptyQuery(SafeLog(<<>>, Incoming, "incoming" \in faults), faults)
  ELSE RestParse(query_opt[1], now, SafeLog(<<>>, Incoming, "incoming" \in faults), faults)

\* The response value always being the list.
RecommendationOf_AlwaysList(restaurants) == ListBody(restaurants)

\* if not restaurants: "There are no results." else: restaurants
RecommendationOf(restaurants) ==
  IF restaurants = <<>> THEN StrBody(Msg("There are no results.", <<>>))
  ELSE ListBody(restaurants)
ResultType(restaurants) == IF restaurants = <<>> THEN "no_results" ELSE "success"

\* The handler resumed with the list, and resumed with an exception.
RestFound(restaurants, log, faults) ==
  [response |-> Response(200, RecommendationOf(restaurants)),
   log |-> SafeLog(log, Completed(ResultType(restaurants)), "completed" \in faults)]
RestFindFailed(e, log, faults) ==
  [response |-> InternalError(e),
   log |-> SafeLog(log, RequestError, "error" \in faults)]

\* Inputs: the queries of the requests, the records and lists the store
\* returns, the exceptions a read of the store raises.
MaxFound == 2
RestQueryParts ==
  { <<>>, <<WordPhrase(<<>>), WordPhrase(<<>>)>>,
    <<WordPhrase(KW_vegetarian), WordPhrase(W_ITALIAN)>>,
    <<WordPhrase(KW_asian), WordPhrase(W_restaurant)>>,
    <<WordPhrase(W_restaurant), BetweenPhrase(Tok("HH:MM", 10, 0), "and", Tok("H:MM", 9, 30))>>,
    <<BetweenPhrase(Tok("HHMM", 9, 30), "dash", Tok("HHMM", 10, 0))>>,
    <<WordPhrase(KW_steakhouse), ClosesPhrase(L_closes, TRUE, Tok("HH:MM", 10, 30))>>,
    <<ClosesPhrase(L_closes, TRUE, Tok("HH:MM", 24, 60))>>,
    <<OpensPhrase(L_opening, FALSE, Tok("HHMM", 9, 30))>> }
StoredRecords ==
  { [name |-> "Pasta Delight", address |-> "Maskit St 35", style |-> "Italian"],
    [name |-> "Wok", address |-> "Main St 1", style |-> "Asian"] }
FoundLists == SeqsUpTo(StoredRecords, MaxFound)
StoreErrors ==
  { [type |-> "RuntimeError", msg |-> "Database not connected", args |-> <<>>],
    [type |-> "ServerSelectionTimeoutError",
     msg |-> "cluster0.example.mongodb.net:27017: timed out", args |-> <<>>] }

\* The query parameter: None when absent.
QueryParam == IF rest_absent THEN <<>> ELSE <<query>>

InitRest ==
  /\ rest_absent \in BOOLEAN
  /\ parts \in RestQueryParts
  /\ rest_absent => parts = <<>>
  /\ query = JoinPhrases(parts)
  /\ rest_faults \in SUBSET LogSites
  /\ called = ""
  /\ veg_ret = <<>>
  /\ style_ret = <<>>
  /\ time_ret = Unset
  /\ proc_ret = Unset
  /\ clock_read = <<>>
  /\ rest_pc = "idle"
  /\ rest_calls = <<>>
  /\ rest_log = <<>>
  /\ rest_result = Unset
  /\ rest_found = <<>>
  /\ rest_exc = <<>>
  /\ rest_response = <<>>
  /\ extractors = <<>>
  /\ NormIdle
  /\ CmpIdle
  /\ LoadIdle
  /\ ConcIdle

\* GET /rest arrives and the handler runs to its return or to its await.
RestRequest ==
  /\ rest_pc = "idle"
  /\ called = ""
  /\ \E c \in ClockReadings :
       /\ rest_result' = RestHandle(QueryParam, get_current_time(c[1], c[2]), rest_faults).result
       /\ rest_pc' = RestHandle(QueryParam, get_current_time(c[1], c[2]), rest_faults).pc
       /\ rest_calls' = RestHandle(QueryParam, get_current_time(c[1], c[2]), rest_faults).calls
       /\ rest_log' = RestHandle(QueryParam, get_current_time(c[1], c[2]), rest_faults).log
       /\ rest_response' = RestHandle(QueryParam, get_current_time(c[1], c[2]), rest_faults).response
  /\ UNCHANGED <<rest_absent, rest_faults, rest_found, rest_exc, extractors>>
  /\ UNCHANGED <<norm_vars, query_vars, cmp_vars, load_vars, conc_vars>>

\* await Database.find_restaurants(...) returns a list.
FindRestaurantsReturns ==
  /\ rest_pc = "await_find"
  /\ \E rs \in FoundLists :
       /\ rest_found' = <<rs>>
       /\ rest_response' = <<RestFound(rs, rest_log, rest_faults).response>>
       /\ rest_log' = RestFound(rs, rest_log, rest_faults).log
  /\ rest_pc' = "done"
  /\ UNCHANGED <<rest_absent, rest_faults, rest_calls, rest_result, rest_exc, extractors>>
  /\ UNCHANGED <<norm_vars, query_vars, cmp_vars, load_vars, conc_vars>>

\* await Database.find_restaurants(...) raises.
FindRestaurantsRaises ==
  /\ rest_pc = "await_find"
  /\ \E e \in StoreErrors :
       /\ rest_exc' = <<e>>
       /\ rest_response' = <<RestFindFailed(e, rest_log, rest_faults).response>>
       /\ rest_log' = RestFindFailed(e, rest_log, rest_faults).log
  /\ rest_pc' = "done"
  /\ UNCHANGED <<rest_absent, rest_faults, rest_calls, rest_result, rest_found, extractors>>
  /\ UNCHANGED <<norm_vars, query_vars, cmp_vars, load_vars, conc_vars>>

\* process_query called on the query itself, outside the handler; an absent
\* query is the call process_query(None), which "not query" treats as "".
CallProcessQueryAlone ==
  /\ rest_pc = "idle"
  /\ called = ""
  /\ called' = "process_query"
  /\ extractors' = ExtractorsRun(query)
  /\ \E c \in ClockReadings :
       proc_ret' = ProcessQueryLogging(query, get_current_time(c[1], c[2]),
                                       "parser" \in rest_faults)
  /\ UNCHANGED <<parts, query, veg_ret, style_ret, time_ret, clock_read>>
  /\ UNCHANGED <<rest_absent, rest_faults, rest_pc, rest_calls, rest_log,
                 rest_result, rest_found, rest_exc, rest_response>>
  /\ UNCHANGED <<norm_vars, cmp_vars, load_vars, conc_vars>>

NextRest ==
  RestRequest \/ FindRestaurantsReturns \/ FindRestaurantsRaises \/ CallProcessQueryAlone

SpecRest == InitRest /\ [][NextRest]_vars

\* ------------------------------------------------------------------------
\* The loader: load_restaurants.py with Restaurant of models.py and
\* Database.insert_restaurant
\* ------------------------------------------------------------------------
REQUIRED_FIELDS == {"name", "style", "address", "vegetarian", "openHour", "closeHour"}

\* The fields of Restaurant in the order of the class.
FieldOrder == <<"name", "style", "address", "vegetarian", "openHour", "closeHour">>

\* A JSON value of an entry: a str, or a value of another type.
FStr(chars) == [t |-> "str", s |-> chars]
FInt == [t |-> "int", s |-> <<>>]

\* str.title(): a letter after a non-letter in upper case, the others lower.
IsLetter(c) == Ord(c) \in 65..90 \/ Ord(c) \in 97..122
UpperChar(c) == IF Ord(c) \in 97..122 THEN Chr(Ord(c) - 32) ELSE c
TitleChar(s, i) ==
  IF i = 1 \/ ~IsLetter(s[i - 1]) THEN UpperChar(s[i]) ELSE LowerChar(s[i])
Title(s) == [i \in 1..Len(s) |-> TitleChar(s, i)]

\* The value of field k after str_strip_whitespace.
Stripped(d, k) == Strip(d[k].s)

\* Field k of the keyword arguments d fails: not a str, min_length, or the
\* field's validator raises.
FieldFails(d, k) ==
  IF d[k].t # "str" THEN TRUE
  ELSE IF k \in {"name", "address"} THEN Len(Stripped(d, k)) < 1
  ELSE IF k = "vegetarian" THEN Lower(Strip(Stripped(d, k))) \notin {S_yes, S_no}
  ELSE IF k \in {"openHour", "closeHour"} THEN validate_time(Stripped(d, k)).st = "err"
  ELSE FALSE
FailingFields(d) == SelectSeq(FieldOrder, LAMBDA k : FieldFails(d, k))

\* restaurant.model_dump() of a Restaurant built from valid arguments.
ModelDump(d) ==
  [name |-> Stripped(d, "name"),
   style |-> Title(Strip(Stripped(d, "style"))),
   address |-> Stripped(d, "address"),
   vegetarian |-> Lower(Strip(Stripped(d, "vegetarian"))),
   openHour |-> validate_time(Stripped(d, "openHour")).val,
   closeHour |-> validate_time(Stripped(d, "closeHour")).val]
ValidationError(fields) ==
  [type |-> "ValidationError", msg |-> "validation errors for Restaurant", args |-> fields]

\* Restaurant(**d) for d with exactly the required keys.
RestaurantWith(d, failing) ==
  IF failing = <<>> THEN Ok(ModelDump(d)) ELSE Raise(ValidationError(failing))
Restaurant(d) == RestaurantWith(d, FailingFields(d))

\* The errors dict of validate_restaurant, and the tuple it returns; built
\* tells whether Restaurant(**data) was called.
Errors(index, data, missing, extra, validation_errors) ==
  [index |-> index, data |-> data, missing_fields |-> missing,
   extra_fields |-> extra, validation_errors |-> validation_errors]
Validated(is_valid, restaurant, errors, built) ==
  [is_valid |-> is_valid, restaurant |-> restaurant, errors |-> errors, built |-> built]

FieldMessages(fields) == [i \in 1..Len(fields) |-> Msg("{}: {}", <<fields[i]>>)]
NotAnObject(data) == <<Msg("Expected object, got {}", <<data.kind>>)>>

ValidateBuilt(data, index, r) ==
  IF r.st = "ok" THEN Validated(TRUE, <<r.val>>, <<>>, TRUE)
  ELSE Validated(FALSE, <<>>, <<Errors(index, data, {}, {}, FieldMessages(r.err.args))>>, TRUE)

\* validate_restaurant looking for missing fields only.
validate_restaurant_MissingOnly(data, index) ==
  IF data.kind # "dict"
  THEN Validated(FALSE, <<>>, <<Errors(index, data, {}, {}, NotAnObject(data))>>, FALSE)
  ELSE IF REQUIRED_FIELDS \ DOMAIN data.fields # {}
  THEN Validated(FALSE, <<>>,
                 <<Errors(index, data, REQUIRED_FIELDS \ DOMAIN data.fields, {}, <<>>)>>,
                 FALSE)
  ELSE ValidateBuilt(data, index, Restaurant(data.fields))

validate_restaurant(data, index) ==
  IF data.kind # "dict"
  THEN Validated(FALSE, <<>>, <<Errors(index, data, {}, {}, NotAnObject(data))>>, FALSE)
  ELSE IF REQUIRED_FIELDS \ DOMAIN data.fields # {} \/ DOMAIN data.fields \ REQUIRED_FIELDS # {}
  THEN Validated(FALSE, <<>>,
                 <<Errors(index, data, REQUIRED_FIELDS \ DOMAIN data.fields,
                          DOMAIN data.fields \ REQUIRED_FIELDS, <<>>)>>,
                 FALSE)
  ELSE ValidateBuilt(data, index, Restaurant(data.fields))

\* load_json_file taking any JSON value as a list of entries.
load_json_file_AnyJson(f) ==
  IF f.kind = "missing" THEN [data |-> <<>>, error |-> <<"File not found: {}">>]
  ELSE IF f.kind = "malformed" THEN [data |-> <<>>, error |-> <<"Invalid JSON: {}">>]
  ELSE [data |-> f.entries, error |-> <<>>]

\* load_json_file: (data, None) or ([], error message)
load_json_file(f) ==
  IF f.kind = "missing" THEN [data |-> <<>>, error |-> <<"File not found: {}">>]
  ELSE IF f.kind = "malformed" THEN [data |-> <<>>, error |-> <<"Invalid JSON: {}">>]
  ELSE IF f.kind # "array" THEN [data |-> <<>>, error |-> <<"Expected JSON array, got {}">>]
  ELSE [data |-> f.entries, error |-> <<>>]

\* The unique index on (name, address) of the collection.
SameKey(a, b) == a.name = b.name /\ a.address = b.address
DuplicateKey(coll, restaurant) == \E i \in 1..Len(coll) : SameKey(coll[i], restaurant)

\* insert_one without the unique index.
insert_restaurant_NoIndex(coll, restaurant) ==
  [store |-> Append(coll, restaurant), inserted |-> TRUE]

\* Database.insert_restaurant: True when inserted, False on DuplicateKeyError
insert_restaurant(coll, restaurant) ==
  IF DuplicateKey(coll, restaurant) THEN [store |-> coll, inserted |-> FALSE]
  ELSE [store |-> Append(coll, restaurant), inserted |-> TRUE]

\* The loop leaving stats["skipped"] as it is on a duplicate.
Counted_NotSkipped(st, key) ==
  IF key = "skipped" THEN st ELSE [st EXCEPT ![key] = @ + 1]

\* stats[key] += 1
Counted(st, key) == [st EXCEPT ![key] = @ + 1]

\* main exiting 0 whenever load_restaurants returned.
ExitCode_ZeroOnReturn(st) == 0

\* sys.exit(1) if stats["invalid"] > 0 else sys.exit(0)
ExitCode(st) == IF st.invalid > 0 THEN 1 ELSE 0

\* What the run has done: an entry validated (built: Restaurant(**data) was
\* called), an insert answered, the run aborted, load_restaurants returned.
Event(what, index, outcome, built) ==
  [what |-> what, index |-> index, outcome |-> outcome, built |-> built]

\* Inputs: the entries of the files, the files, the collection before the run.
MaxEntries == 3
Fields(name, address, vegetarian, openHour, closeHour) ==
  [k \in REQUIRED_FIELDS |->
     IF k = "name" THEN FStr(name)
     ELSE IF k = "style" THEN FStr(KW_italian)
     ELSE IF k = "address" THEN FStr(address)
     ELSE IF k = "vegetarian" THEN FStr(vegetarian)
     ELSE IF k = "openHour" THEN FStr(openHour)
     ELSE FStr(closeHour)]
Obj(fields) == [kind |-> "dict", fields |-> fields]
Without(f, keys) == [k \in DOMAIN f \ keys |-> f[k]]
GoodFields ==
  Fields(<<"A">>, <<"X">>, S_yes, Token("HHMM", 9, 0), Token("HH:MM", 22, 0))
Good1 == Obj(GoodFields)
Good1Again ==
  Obj(Fields(<<" ", "A">>, <<"X", " ">>, <<"Y", "e", "s">>, Token("H:MM", 9, 0),
             Token("HHMM", 23, 59)))
Good2 == Obj(Fields(<<"B">>, <<"X">>, S_no, Token("HH:MM", 10, 30), Token("HH:MM", 10, 30)))
MissingTwo == Obj(Without(GoodFields, {"address", "closeHour"}))
ExtraOne == Obj(GoodFields @@ ("rating" :> FInt))
MissingAndExtra == Obj(Without(GoodFields, {"name"}) @@ ("rating" :> FInt))
BadTime == Obj(Fields(<<"C">>, <<"X">>, S_yes, Token("HH:MM", 25, 0), Token("HH:MM", 22, 0)))
BlankName == Obj(Fields(<<" ">>, <<"X">>, S_no, Token("HHMM", 9, 0), Token("HH:MM", 22, 0)))
NotADict == [kind |-> "str", fields |-> <<>>]
EntryPool ==
  {Good1, Good1Again, Good2, MissingTwo, ExtraOne, MissingAndExtra, BadTime,
   BlankName, NotADict}
Files ==
  {[kind |-> k, entries |-> <<>>] : k \in {"missing", "malformed", "object"}}
    \cup {[kind |-> "array", entries |-> es] : es \in SeqsUpTo(EntryPool, MaxEntries)}
StoresBefore == {<<>>, <<ModelDump(GoodFields)>>}

\* raw_data of load_restaurants
RawData == load_json_file(load_file).data

InitLoad ==
  /\ load_file \in Files
  /\ store \in StoresBefore
  /\ store_before = store
  /\ load_pc = "start"
  /\ load_index = 0
  /\ stats = [inserted |-> 0, skipped |-> 0, invalid |-> 0, total |-> 0]
  /\ pending = <<>>
  /\ load_events = <<>>
  /\ reported = <<>>
  /\ exit_code = <<>>
  /\ NormIdle
  /\ QueryIdle
  /\ CmpIdle
  /\ RestIdle
  /\ ConcIdle

\* load_restaurants up to "await Database.connect()": an error of
\* load_json_file is raised as RuntimeError and main exits with 2.
LoadFile ==
  /\ load_pc = "start"
  /\ IF load_json_file(load_file).error # <<>>
     THEN /\ load_pc' = "exit"
          /\ exit_code' = <<2>>
          /\ load_events' = Append(load_events, Event("abort", -1, "file", FALSE))
          /\ stats' = stats
     ELSE /\ load_pc' = "connecting"
          /\ exit_code' = exit_code
          /\ load_events' = load_events
          /\ stats' = [stats EXCEPT !.total = Len(RawData)]
  /\ UNCHANGED <<load_file, store, store_before, load_index, pending, reported>>
  /\ UNCHANGED <<norm_vars, query_vars, cmp_vars, rest_vars, conc_vars>>

\* Database.connect() returns.
ConnectReturns ==
  /\ load_pc = "connecting"
  /\ load_pc' = "loop"
  /\ UNCHANGED <<load_file, store, store_before, load_index, stats, pending,
                 load_events, reported, exit_code>>
  /\ UNCHANGED <<norm_vars, query_vars, cmp_vars, rest_vars, conc_vars>>

\* Database.connect() raises: main exits with 2.
ConnectRaises ==
  /\ load_pc = "connecting"
  /\ load_pc' = "exit"
  /\ exit_code' = <<2>>
  /\ load_events' = Append(load_events, Event("abort", -1, "connect", FALSE))
  /\ UNCHANGED <<load_file, store, store_before, load_index, stats, pending, reported>>
  /\ UNCHANGED <<norm_vars, query_vars, cmp_vars, rest_vars, conc_vars>>

\* One turn of the loop up to "continue" or to "await insert_restaurant".
ValidateEntry ==
  /\ load_pc = "loop"
  /\ load_index < Len(RawData)
  /\ LET v == validate_restaurant(RawData[load_index + 1], load_index)
     IN IF v.is_valid
        THEN /\ pending' = v.restaurant
             /\ load_pc' = "inserting"
             /\ load_events' = Append(load_events, Event("validate", load_index, "valid", v.built))
             /\ UNCHANGED <<stats, reported, load_index>>
        ELSE /\ stats' = Counted(stats, "invalid")
             /\ reported' = Append(reported, v.errors[1])
             /\ load_events' = Append(load_events, Event("validate", load_index, "invalid", v.built))
             /\ load_index' = load_index + 1
             /\ UNCHANGED <<pending, load_pc>>
  /\ UNCHANGED <<load_file, store, store_before, exit_code>>
  /\ UNCHANGED <<norm_vars, query_vars, cmp_vars, rest_vars, conc_vars>>

\* insert_restaurant returns True or False; the loop goes to the next entry.
InsertReturns ==
  /\ load_pc = "inserting"
  /\ store' = insert_restaurant(store, pending[1]).store
  /\ stats' = Counted(stats, IF insert_restaurant(store, pending[1]).inserted
                              THEN "inserted" ELSE "skipped")
  /\ load_events' =
       Append(load_events,
              Event("insert", load_index,
                    IF insert_restaurant(store, pending[1]).inserted
                    THEN "inserted" ELSE "skipped", TRUE))
  /\ pending' = <<>>
  /\ load_index' = load_index + 1
  /\ load_pc' = "loop"
  /\ UNCHANGED <<load_file, store_before, reported, exit_code>>
  /\ UNCHANGED <<norm_vars, query_vars, cmp_vars, rest_vars, conc_vars>>

\* insert_one raises another error than DuplicateKeyError: main exits with 2.
InsertRaises ==
  /\ load_pc = "inserting"
  /\ load_pc' = "exit"
  /\ exit_code' = <<2>>
  /\ load_events' = Append(load_events, Event("abort", load_index, "insert", TRUE))
  /\ UNCHANGED <<load_file, store, store_before, load_index, stats, pending, reported>>
  /\ UNCHANGED <<norm_vars, query_vars, cmp_vars, rest_vars, conc_vars>>

\* The loop is over: disconnect, return stats, and main's exit code.
ReturnStats ==
  /\ load_pc = "loop"
  /\ load_index = Len(RawData)
  /\ load_pc' = "exit"
  /\ exit_code' = <<ExitCode(stats)>>
  /\ load_events' = Append(load_events, Event("return", -1, "", FALSE))
  /\ UNCHANGED <<load_file, store, store_before, load_index, stats, pending, reported>>
  /\ UNCHANGED <<norm_vars, query_vars, cmp_vars, rest_vars, conc_vars>>

NextLoad ==
  \/ LoadFile \/ ConnectReturns \/ ConnectRaises \/ ValidateEntry
  \/ InsertReturns \/ InsertRaises \/ ReturnStats

SpecLoad == InitLoad /\ [][NextLoad]_vars

\* ------------------------------------------------------------------------
\* process_query called side by side: each call runs statement by
\* statement on its own locals, the calls share the module's globals
\* ------------------------------------------------------------------------
MaxCallers == 2
Callers == 1..MaxCallers

\* The for loop of parse_style over the dict styles.
StyleIn(styles, q) ==
  LET query_lower == Lower(q)
      found == {k \in 1..Len(styles) : Contains(query_lower, styles[k].key)}
  IN IF found = {} THEN <<>>
     ELSE <<styles[CHOOSE k \in found : \A j \in found : k <= j].value>>

\* The dict styles without the first entry whose key is in the query.
WithoutFound(styles, q) ==
  SelectSeq(styles, LAMBDA e : <<e.value>> # StyleIn(styles, q))

\* parse_style taking the entry it finds out of STYLES.
StyleStep_Consuming(globals, q) ==
  [globals |-> [globals EXCEPT !.STYLES = WithoutFound(globals.STYLES, q)],
   style |-> StyleIn(globals.STYLES, q)]

\* parse_style run on the module's globals: STYLES is read, nothing written.
StyleStep(globals, q) ==
  [globals |-> globals, style |-> StyleIn(globals.STYLES, q)]

\* The locals of a call as it begins: pc is the statement it stands before.
Called(query_arg) ==
  [pc |-> "parse_query", query |-> query_arg, q |-> <<>>, vegetarian |-> <<>>,
   style |-> <<>>, tc |-> Unset, err |-> NoErr, clock |-> <<>>, ret |-> Unset]

\* The ParsedQuery a call has put together from its locals.
ParsedOf(l) ==
  [vegetarian |-> l.vegetarian, style |-> l.style, open_by |-> l.tc.val.open_by,
   close_by |-> l.tc.val.close_by,
   use_current_time |-> l.tc.val.use_current_time, raw_query |-> l.q]

\* Inputs: the queries of the calls.
ConcQueryParts ==
  { <<WordPhrase(<<>>), WordPhrase(<<>>)>>,
    <<WordPhrase(KW_vegetarian), WordPhrase(W_ITALIAN)>>,
    <<WordPhrase(KW_asian), WordPhrase(W_restaurant)>>,
    <<WordPhrase(W_restaurant), BetweenPhrase(Tok("HH:MM", 10, 0), "and", Tok("H:MM", 9, 30))>>,
    <<WordPhrase(KW_asian), ClosesPhrase(L_closes, TRUE, Tok("HH:MM", 10, 30))>> }
ConcQueries == {JoinPhrases(ps) : ps \in ConcQueryParts}

InitConc ==
  /\ module_state = [STYLES |-> STYLES]
  /\ invocations \in [Callers -> {Called(qs) : qs \in ConcQueries}]
  /\ NormIdle
  /\ QueryIdle
  /\ CmpIdle
  /\ RestIdle
  /\ LoadIdle

\* parse_query: the empty check and query.strip()
EnterParseQuery(i) ==
  /\ invocations[i].pc = "parse_query"
  /\ invocations' =
       [invocations EXCEPT ![i] =
          IF invocations[i].query = <<>> \/ Strip(invocations[i].query) = <<>>
          THEN [invocations[i] EXCEPT !.pc = "except", !.err = QueryIsEmpty]
          ELSE [invocations[i] EXCEPT !.pc = "parse_vegetarian",
                                      !.q = Strip(invocations[i].query)]]
  /\ UNCHANGED module_state
  /\ UNCHANGED <<norm_vars, query_vars, cmp_vars, rest_vars, load_vars>>

\* vegetarian = parse_vegetarian(query)
StepParseVegetarian(i) ==
  /\ invocations[i].pc = "parse_vegetarian"
  /\ invocations' =
       [invocations EXCEPT ![i] =
          [invocations[i] EXCEPT !.pc = "parse_style",
                                 !.vegetarian = parse_vegetarian(invocations[i].q)]]
  /\ UNCHANGED module_state
  /\ UNCHANGED <<norm_vars, query_vars, cmp_vars, rest_vars, load_vars>>

\* style = parse_style(query)
StepParseStyle(i) ==
  /\ invocations[i].pc = "parse_style"
  /\ invocations' =
       [invocations EXCEPT ![i] =
          [invocations[i] EXCEPT
             !.pc = "parse_time_constraints",
             !.style = StyleStep(module_state, invocations[i].q).style]]
  /\ module_state' = StyleStep(module_state, invocations[i].q).globals
  /\ UNCHANGED <<norm_vars, query_vars, cmp_vars, rest_vars, load_vars>>

\* open_by, close_by, use_current = parse_time_constraints(query)
StepParseTimeConstraints(i) ==
  /\ invocations[i].pc = "parse_time_constraints"
  /\ invocations' =
       [invocations EXCEPT ![i] =
          IF parse_time_constraints(invocations[i].q).st = "err"
          THEN [invocations[i] EXCEPT
                  !.pc = "except",
                  !.err = parse_time_constraints(invocations[i].q).err]
          ELSE [invocations[i] EXCEPT
                  !.pc = "build_mongo_filter",
                  !.tc = parse_time_constraints(invocations[i].q)]]
  /\ UNCHANGED module_state
  /\ UNCHANGED <<norm_vars, query_vars, cmp_vars, rest_vars, load_vars>>

\* mongo_filter = build_mongo_filter(parsed), the clock read where it is
\* used, and the return of the result.
StepBuildFilter(i) ==
  /\ invocations[i].pc = "build_mongo_filter"
  /\ \E c \in ClockReadings :
       invocations' =
         [invocations EXCEPT ![i] =
            [invocations[i] EXCEPT
               !.pc = "returned",
               !.clock = IF invocations[i].tc.val.use_current_time
                         THEN <<get_current_time(c[1], c[2])>> ELSE <<>>,
               !.ret = Ok(ResultDict(
                         <<build_mongo_filter(ParsedOf(invocations[i]),
                                              get_current_time(c[1], c[2]))>>,
                         <<ParsedOf(invocations[i])>>, <<>>))]]
  /\ UNCHANGED module_state
  /\ UNCHANGED <<norm_vars, query_vars, cmp_vars, rest_vars, load_vars>>

\* except QueryParseError as e: the result with str(e)
StepExcept(i) ==
  /\ invocations[i].pc = "except"
  /\ invocations' =
       [invocations EXCEPT ![i] =
          [invocations[i] EXCEPT
             !.pc = "returned",
             !.ret = Ok(ResultDict(<<>>, <<>>,
                                   <<[msg |-> invocations[i].err.msg,
                                      args |-> invocations[i].err.args]>>))]]
  /\ UNCHANGED module_state
  /\ UNCHANGED <<norm_vars, query_vars, cmp_vars, rest_vars, load_vars>>

NextConc ==
  \E i \in Callers :
     \/ EnterParseQuery(i) \/ StepParseVegetarian(i) \/ StepParseStyle(i)
     \/ StepParseTimeConstraints(i) \/ StepBuildFilter(i) \/ StepExcept(i)

SpecConc == InitConc /\ [][NextConc]_vars

\* ------------------------------------------------------------------------
\* Properties of the normalizers (SpecNorm, SpecCmp)
\* ------------------------------------------------------------------------
IsDigitChar(c) == c \in {"0", "1", "2", "3", "4", "5", "6", "7", "8", "9"}
DigitValue(c) == CHOOSE n \in 0..9 : DigitCh(n) = c

\* The token was written in one of the three shapes from an hour and a minute.
Shaped == tok_shape \in Shapes
InRange == tok_hour <= 23 /\ tok_minute <= 59

\* A string is of the colon shape (one or two digits, a colon, two digits)
\* or of the compact shape (four digits).
HasColonShape(t) ==
  /\ Len(t) \in {4, 5}
  /\ \A i \in 1..Len(t) : IF i = Len(t) - 2 THEN t[i] = ":" ELSE IsDigitChar(t[i])
HasCompactShape(t) == Len(t) = 4 /\ \A i \in 1..4 : IsDigitChar(t[i])

\* "HH:MM": five characters, two digits, a colon, two digits.
IsHHMM(v) ==
  /\ Len(v) = 5
  /\ v[3] = ":"
  /\ \A i \in {1, 2, 4, 5} : IsDigitChar(v[i])
HourOf(v) == 10 * DigitValue(v[1]) + DigitValue(v[2])
MinuteOf(v) == 10 * DigitValue(v[4]) + DigitValue(v[5])

\* C4: for every token of shape H:MM, HH:MM or HHMM with hour 0..23 and minute
\* 0..59, normalize_time returns a 5-character zero-padded "HH:MM" string that
\* denotes the token's hour and minute, and normalize_time applied to that
\* output returns the output unchanged.
C4_NormalizeFixedWidthIdempotent ==
  /\ (Shaped /\ InRange /\ norm_ret.st # "unset") =>
        /\ norm_ret.st = "ok"
        /\ IsHHMM(norm_ret.val)
        /\ HourOf(norm_ret.val) = tok_hour
        /\ MinuteOf(norm_ret.val) = tok_minute
  /\ (Shaped /\ InRange /\ again_ret.st # "unset") =>
        /\ again_ret.st = "ok"
        /\ again_ret.val = norm_ret.val

\* "9:05" was normalized to "09:05", and "09:05" again to "09:05".
C4_Witness ==
  /\ tok_shape = "H:MM" /\ tok_hour = 9 /\ tok_minute = 5
  /\ time_str = <<"9", ":", "0", "5">>
  /\ norm_ret.st = "ok" /\ norm_ret.val = <<"0", "9", ":", "0", "5">>
  /\ again_ret.st = "ok" /\ again_ret.val = <<"0", "9", ":", "0", "5">>

\* The token with the blanks around it removed.
Trimmed == Strip(time_str)

\* C5: for every token whose hour is above 23 or whose minute is above 59, and
\* for every token of neither the colon nor the compact shape, normalize_time
\* raises the invalid-time-format error carrying the token and returns no value.
C5_InvalidTokenRejected ==
  (/\ norm_ret.st # "unset"
   /\ \/ Shaped /\ ~InRange
      \/ ~HasColonShape(Trimmed) /\ ~HasCompactShape(Trimmed)) =>
     /\ norm_ret.st = "err"
     /\ norm_ret.val = <<>>
     /\ norm_ret.err.type = "QueryParseError"
     /\ norm_ret.err.msg = "Invalid time format: {}"
     /\ norm_ret.err.args = <<Trimmed>>

\* "24:00" (hour out of range) was rejected with the token in the message.
C5_Witness ==
  /\ tok_shape = "HH:MM" /\ tok_hour = 24 /\ tok_minute = 0
  /\ norm_ret.st = "err"
  /\ norm_ret.err.args = << <<"2", "4", ":", "0", "0">> >>

\* C6: Restaurant.validate_time and normalize_time agree on every string:
\* both reject it, or both accept it and return the same "HH:MM" string.
C6_ValidatorsAgree ==
  (norm_ret.st # "unset" /\ field_ret.st # "unset") =>
     /\ norm_ret.st = field_ret.st
     /\ norm_ret.val = field_ret.val

\* "0900" became "09:00" in both.
C6_Witness ==
  /\ time_str = <<"0", "9", "0", "0">>
  /\ norm_ret.st = "ok" /\ norm_ret.val = <<"0", "9", ":", "0", "0">>
  /\ field_ret.st = "ok" /\ field_ret.val = <<"0", "9", ":", "0", "0">>

\* C8: two outputs of the normalizer compare as strings exactly as their times
\* of day compare: a < b iff 60*hour(a)+minute(a) < 60*hour(b)+minute(b), and
\* a == b iff they denote the same minute.
MinuteOfDay(t) == 60 * t.h + t.m
C8_StringOrderIsTimeOrder ==
  cmp_ret # <<>> =>
     /\ IsHHMM(a_out[1]) /\ IsHHMM(b_out[1])
     /\ HourOf(a_out[1]) = a_tok.h /\ MinuteOf(a_out[1]) = a_tok.m
     /\ HourOf(b_out[1]) = b_tok.h /\ MinuteOf(b_out[1]) = b_tok.m
     /\ cmp_ret[1].lt <=> (MinuteOfDay(a_tok) < MinuteOfDay(b_tok))
     /\ cmp_ret[1].eq <=> (MinuteOfDay(a_tok) = MinuteOfDay(b_tok))
     /\ cmp_ret[1].gt <=> (MinuteOfDay(a_tok) > MinuteOfDay(b_tok))

\* "9:59" and "10:00" were compared: "09:59" < "10:00".
C8_Witness ==
  /\ a_tok = Tok("H:MM", 9, 59)
  /\ b_tok = Tok("HH:MM", 10, 0)
  /\ cmp_ret # <<>>
  /\ cmp_ret[1].lt /\ ~cmp_ret[1].eq /\ ~cmp_ret[1].gt

\* ------------------------------------------------------------------------
\* Properties of the parser (Spec), stated on the phrases a query was
\* written from
\* ------------------------------------------------------------------------
TokInRange(t) == t.h <= 23 /\ t.m <= 59
\* The "HH:MM" text of a token's hour and minute.
Canon(t) == D2(t.h) \o <<":">> \o D2(t.m)
IsCompact(t) == t.shape = "HHMM"

PhrasesOf(kind) == {i \in 1..Len(parts) : parts[i].kind = kind}
TimePhrases == PhrasesOf("between") \cup PhrasesOf("opens") \cup PhrasesOf("closes")

\* One of between_patterns matches the phrase: both tokens of one shape,
\* with and / to between blanks or a bare "-" between them, or for compact
\* tokens also a "-" between blanks.
PatternMatches(p) ==
  /\ p.kind = "between"
  /\ IsCompact(p.a) = IsCompact(p.b)
  /\ \/ p.link \in {"and", "to", "AND", "dash"}
     \/ p.link = "spaced_dash" /\ IsCompact(p.a)
MatchedBetweens == {i \in PhrasesOf("between") : PatternMatches(parts[i])}

\* r is the outcome of the range "between a ... b".
IsRangeOutcome(p, r) ==
  IF ~TokInRange(p.a)
  THEN r.st = "err" /\ r.err = InvalidTimeFormat(TokText(p.a))
  ELSE IF ~TokInRange(p.b)
  THEN r.st = "err" /\ r.err = InvalidTimeFormat(TokText(p.b))
  ELSE IF StrGreater(Canon(p.a), Canon(p.b))
  THEN r.st = "err" /\ r.err = MidnightCrossing(Canon(p.a), Canon(p.b))
  ELSE r.st = "ok" /\ r.val = TimeTuple(<<Canon(p.a)>>, <<Canon(p.b)>>, FALSE)

\* r is open-by = T only (close-by = T only) for the phrase's token T.
IsOpenByOnly(p, r) ==
  TokInRange(p.a) /\ r.st = "ok" /\ r.val = TimeTuple(<<Canon(p.a)>>, <<>>, FALSE)
IsCloseByOnly(p, r) ==
  TokInRange(p.a) /\ r.st = "ok" /\ r.val = TimeTuple(<<>>, <<Canon(p.a)>>, FALSE)
IsInvalidToken(p, r) ==
  ~TokInRange(p.a) /\ r.st = "err" /\ r.err = InvalidTimeFormat(TokText(p.a))
IsUseCurrentTime(r) == r.st = "ok" /\ r.val = TimeTuple(<<>>, <<>>, TRUE)

\* C1: when a between pattern matches with two valid tokens A and B, the
\* call fails with the midnight-crossing error if normalize(A) > normalize(B)
\* and returns (normalize(A), normalize(B), False) otherwise, zero-width
\* range included; the endpoints are never swapped.
C1_MidnightOrRange ==
  (called = "parse_time_constraints" /\ Cardinality(MatchedBetweens) = 1) =>
     \A i \in MatchedBetweens :
        (TokInRange(parts[i].a) /\ TokInRange(parts[i].b)) =>
           IF StrGreater(Canon(parts[i].a), Canon(parts[i].b))
           THEN /\ time_ret.st = "err"
                /\ time_ret.err = MidnightCrossing(Canon(parts[i].a), Canon(parts[i].b))
           ELSE /\ time_ret.st = "ok"
                /\ time_ret.val =
                     TimeTuple(<<Canon(parts[i].a)>>, <<Canon(parts[i].b)>>, FALSE)

\* "between 10:00 and 9:30" raised the midnight-crossing error for 10:00 to 09:30.
C1_Witness ==
  /\ called = "parse_time_constraints"
  /\ parts = <<BetweenPhrase(Tok("HH:MM", 10, 0), "and", Tok("H:MM", 9, 30))>>
  /\ time_ret.st = "err"
  /\ time_ret.err.args = << <<"1", "0", ":", "0", "0">>, <<"0", "9", ":", "3", "0">> >>

\* C2: a query with "between A and B", "between A to B" or "between A-B", A
\* and B each a colon or a compact token (mixed shapes included), yields the
\* range (normalize(A), normalize(B)) or an error of normalization or of the
\* midnight check, and never falls through to the later cases.
C2_BetweenAnyShapes ==
  (/\ called = "parse_time_constraints"
   /\ Cardinality(TimePhrases) = 1
   /\ PhrasesOf("between") # {}) =>
     \A i \in PhrasesOf("between") :
        parts[i].link \in {"and", "to", "dash"} => IsRangeOutcome(parts[i], time_ret)

\* C3 as amended: the constraint is resolved in priority order wherever the
\* phrases stand: a matching between pattern decides (range or error) even
\* with an opens or closes phrase present; else an opens pattern decides
\* (open-by only, or the invalid-time error of its token); else a closes
\* pattern decides (close-by only, or the invalid-time error); else the
\* result is (None, None, True). One branch decides every query.
C3_PriorityOrder ==
  called = "parse_time_constraints" =>
     IF MatchedBetweens # {}
     THEN \E i \in MatchedBetweens : IsRangeOutcome(parts[i], time_ret)
     ELSE IF PhrasesOf("opens") # {}
     THEN \E i \in PhrasesOf("opens") :
             IsOpenByOnly(parts[i], time_ret) \/ IsInvalidToken(parts[i], time_ret)
     ELSE IF PhrasesOf("closes") # {}
     THEN \E i \in PhrasesOf("closes") :
             IsCloseByOnly(parts[i], time_ret) \/ IsInvalidToken(parts[i], time_ret)
     ELSE IsUseCurrentTime(time_ret)

\* C3 as stated: as above, but an opens (closes) pattern that matches always
\* gives open-by = T only (close-by = T only).
C3_PriorityOrderAsStated ==
  called = "parse_time_constraints" =>
     IF MatchedBetweens # {}
     THEN \E i \in MatchedBetweens : IsRangeOutcome(parts[i], time_ret)
     ELSE IF PhrasesOf("opens") # {}
     THEN \E i \in PhrasesOf("opens") :
             time_ret.st = "ok" /\ time_ret.val.close_by = <<>>
             /\ ~time_ret.val.use_current_time /\ time_ret.val.open_by # <<>>
     ELSE IF PhrasesOf("closes") # {}
     THEN \E i \in PhrasesOf("closes") :
             time_ret.st = "ok" /\ time_ret.val.open_by = <<>>
             /\ ~time_ret.val.use_current_time /\ time_ret.val.close_by # <<>>
     ELSE IsUseCurrentTime(time_ret)

\* "opens at 10:00 between 0930-0930": the range decided, not the opens
\* phrase standing before it.
C3_Witness ==
  /\ called = "parse_time_constraints"
  /\ parts = <<OpensPhrase(L_opens, TRUE, Tok("HH:MM", 10, 0)),
               BetweenPhrase(Tok("HHMM", 9, 30), "dash", Tok("HHMM", 9, 30))>>
  /\ time_ret.st = "ok"
  /\ time_ret.val = TimeTuple(<< <<"0", "9", ":", "3", "0">> >>,
                              << <<"0", "9", ":", "3", "0">> >>, FALSE)

\* The styles whose keyword was written into the query, by enumeration index.
StyleIndex(w) ==
  CASE w = W_ITALIAN -> 1
    [] w = KW_asian -> 2
    [] w = KW_steakhouse -> 3
    [] w = KW_mediterranean -> 4
    [] OTHER -> 0
StylesWritten == {StyleIndex(parts[i].text) : i \in PhrasesOf("word")} \ {0}
CanonicalNames == <<V_Italian, V_Asian, V_Steakhouse, V_Mediterranean>>

\* C7: parse_style returns the title-cased name of the style earliest in the
\* order italian < asian < steakhouse < mediterranean among those whose
\* keyword occurs in the query in any letter case, whatever their positions,
\* and None exactly when no style keyword occurs.
C7_StyleByEnumerationOrder ==
  called = "parse_style" =>
     IF StylesWritten = {} THEN style_ret = << <<>> >>
     ELSE \E k \in StylesWritten :
            /\ \A j \in StylesWritten : k <= j
            /\ style_ret = << <<CanonicalNames[k]>> >>

\* "mediterranean ITALIAN" gave "Italian".
C7_Witness ==
  /\ called = "parse_style"
  /\ parts = <<WordPhrase(KW_mediterranean), WordPhrase(W_ITALIAN)>>
  /\ style_ret = << <<V_Italian>> >>

\* r is what the time step gives for the phrases of the query.
IsTimeOutcome(r) ==
  IF MatchedBetweens # {}
  THEN \E i \in MatchedBetweens : IsRangeOutcome(parts[i], r)
  ELSE IF PhrasesOf("opens") # {}
  THEN \E i \in PhrasesOf("opens") : IsOpenByOnly(parts[i], r) \/ IsInvalidToken(parts[i], r)
  ELSE IF PhrasesOf("closes") # {}
  THEN \E i \in PhrasesOf("closes") : IsCloseByOnly(parts[i], r) \/ IsInvalidToken(parts[i], r)
  ELSE IsUseCurrentTime(r)

\* The query is empty or of blanks only: it was written from empty words.
Blank == \A i \in 1..Len(parts) : parts[i].kind = "word" /\ parts[i].text = <<>>
VegetarianWritten ==
  \E i \in PhrasesOf("word") : parts[i].text \in {KW_vegetarian, W_Vegetarian}

TokensWritten ==
  {Canon(parts[i].a) : i \in TimePhrases} \cup {Canon(parts[i].b) : i \in PhrasesOf("between")}

\* C10: the filter of a successful process_query has "vegetarian" with "yes"
\* (the query contains the word) or "no" (it does not), has "style" exactly
\* when a style was extracted, and has one kind of time bound: explicit
\* bounds from the query (openHour <= open-by, closeHour >= close-by, at
\* least one of them) or the current time on both sides, never both kinds
\* and never neither.
C10_FilterShape ==
  (called = "process_query" /\ proc_ret.st = "ok" /\ proc_ret.val.filter # <<>>) =>
     LET f == proc_ret.val.filter[1]
         pq == proc_ret.val.parsed[1]
         hasOpen == "openHour" \in DOMAIN f
         hasClose == "closeHour" \in DOMAIN f
     IN /\ DOMAIN f \subseteq {"vegetarian", "style", "openHour", "closeHour"}
        /\ "vegetarian" \in DOMAIN f
        /\ f["vegetarian"] = IF VegetarianWritten THEN S_yes ELSE S_no
        /\ ("style" \in DOMAIN f) <=> (StylesWritten # {})
        /\ ("style" \in DOMAIN f) => (pq.style = <<f["style"]>>)
        /\ IF pq.use_current_time
           THEN /\ clock_read # <<>>
                /\ hasOpen /\ f["openHour"] = Cmp("$lte", clock_read[1])
                /\ hasClose /\ f["closeHour"] = Cmp("$gte", clock_read[1])
           ELSE /\ clock_read = <<>>
                /\ hasOpen \/ hasClose
                /\ hasOpen <=> (pq.open_by # <<>>)
                /\ hasClose <=> (pq.close_by # <<>>)
                /\ hasOpen => /\ f["openHour"] = Cmp("$lte", pq.open_by[1])
                              /\ pq.open_by[1] \in TokensWritten
                /\ hasClose => /\ f["closeHour"] = Cmp("$gte", pq.close_by[1])
                               /\ pq.close_by[1] \in TokensWritten

\* "closes at 10:30 ITALIAN" gave
\* {vegetarian: "no", style: "Italian", closeHour >= "10:30"} and no openHour.
C10_Witness ==
  /\ called = "process_query"
  /\ parts = <<ClosesPhrase(L_closes, TRUE, Tok("HH:MM", 10, 30)), WordPhrase(W_ITALIAN)>>
  /\ proc_ret.st = "ok"
  /\ proc_ret.val.filter # <<>>
  /\ DOMAIN proc_ret.val.filter[1] = {"vegetarian", "style", "closeHour"}
  /\ proc_ret.val.filter[1]["closeHour"] = Cmp("$gte", <<"1", "0", ":", "3", "0">>)
  /\ clock_read = <<>>

\* The query has one time phrase, "opens [at] T" or "closes [at] T", with
\* T's hour at most 23 and minute at most 59.
OneSidedOnly(kind) ==
  /\ Cardinality(TimePhrases) = 1
  /\ \A i \in TimePhrases : parts[i].kind = kind /\ TokInRange(parts[i].a)
TheToken == Canon(parts[CHOOSE i \in TimePhrases : TRUE].a)

\* C11: a query whose only time phrase is "opens/opening at T" or
\* "closes/closing at T" with a valid T never gives the midnight-crossing
\* error (neither from parse_time_constraints nor from process_query), and
\* its filter has only the one bound: closes gives closeHour >= normalize(T)
\* and no openHour key, opens gives openHour <= normalize(T) and no
\* closeHour key; the clock is not read for the missing side.
C11_OneSidedBound ==
  (OneSidedOnly("opens") \/ OneSidedOnly("closes")) =>
     /\ called = "parse_time_constraints" =>
          /\ time_ret.st = "ok"
          /\ ~time_ret.val.use_current_time
     /\ called = "process_query" =>
          /\ proc_ret.st = "ok"
          /\ proc_ret.val.error = <<>>
          /\ proc_ret.val.filter # <<>>
          /\ clock_read = <<>>
          /\ LET f == proc_ret.val.filter[1]
             IN IF OneSidedOnly("opens")
                THEN /\ "openHour" \in DOMAIN f
                     /\ "closeHour" \notin DOMAIN f
                     /\ f["openHour"] = Cmp("$lte", TheToken)
                ELSE /\ "closeHour" \in DOMAIN f
                     /\ "openHour" \notin DOMAIN f
                     /\ f["closeHour"] = Cmp("$gte", TheToken)

\* "vegetarian opening at 0930" gave {vegetarian: "yes", openHour <= "09:30"}.
C11_Witness ==
  /\ called = "process_query"
  /\ parts = <<WordPhrase(KW_vegetarian), OpensPhrase(L_opening, TRUE, Tok("HHMM", 9, 30))>>
  /\ OneSidedOnly("opens")
  /\ proc_ret.st = "ok"
  /\ proc_ret.val.error = <<>>
  /\ DOMAIN proc_ret.val.filter[1] = {"vegetarian", "openHour"}
  /\ proc_ret.val.filter[1]["openHour"] = Cmp("$lte", <<"0", "9", ":", "3", "0">>)
  /\ clock_read = <<>>

\* ------------------------------------------------------------------------
\* Properties of the /rest handler (SpecRest)
\* ------------------------------------------------------------------------
\* The request has no query parameter, or one that is empty or of blanks.
RestBlank == rest_absent \/ Blank
QueryIsEmptyBody == StrBody(Msg("query is empty", <<>>))
StoreReads == Cardinality({i \in 1..Len(rest_calls) : rest_calls[i] = "find_restaurants"})
ParserLogFails == "parser" \in rest_faults

C13_InternalErrorIsGeneric ==
  rest_exc # <<>> =>
     \A e \in StoreErrors : rest_response = <<InternalError(e)>>

\* What the handler answers to the same request, with the same answer of
\* the store, when no logging call raises.
ResponseWithLogging(r) ==
  IF r.pc = "done" THEN r.response
  ELSE IF rest_found # <<>> THEN <<RestFound(rest_found[1], r.log, {}).response>>
  ELSE IF rest_exc # <<>> THEN <<RestFindFailed(rest_exc[1], r.log, {}).response>>
  ELSE <<>>
PendingWithLogging(r) == r.pc = "await_find" /\ rest_found = <<>> /\ rest_exc = <<>>

\* C14: whichever logging calls raise during a request, the request
\* completes with the response it gives when none raises.
C14_LoggingNeverChangesResponse ==
  rest_pc = "done" =>
     \E c \in ClockReadings :
        /\ ~PendingWithLogging(RestHandle(QueryParam, get_current_time(c[1], c[2]), {}))
        /\ rest_response =
             ResponseWithLogging(RestHandle(QueryParam, get_current_time(c[1], c[2]), {}))

\* The same for the calls of safe_log alone: the logger call of
\* process_query does not raise.
C14_SafeLogNeverChangesResponse ==
  (rest_pc = "done" /\ ~ParserLogFails) =>
     \E c \in ClockReadings :
        /\ ~PendingWithLogging(RestHandle(QueryParam, get_current_time(c[1], c[2]), {}))
        /\ rest_response =
             ResponseWithLogging(RestHandle(QueryParam, get_current_time(c[1], c[2]), {}))

\* C15: once the store has returned for a non-empty query that parsed, the
\* response is 200 with "There are no results." when the list is empty and
\* with the returned list itself otherwise: same records, same order.
C15_ResultsOrNoResults ==
  rest_found # <<>> =>
     /\ ~RestBlank
     /\ rest_result.st = "ok" /\ rest_result.val.error = <<>>
     /\ rest_pc = "done"
     /\ rest_response # <<>>
     /\ rest_response[1].status = 200
     /\ IF Len(rest_found[1]) = 0
        THEN /\ rest_response[1].body.kind = "str"
             /\ rest_response[1].body.str = Msg("There are no results.", <<>>)
        ELSE /\ rest_response[1].body.kind = "list"
             /\ Len(rest_response[1].body.list) = Len(rest_found[1])
             /\ \A i \in 1..Len(rest_found[1]) :
                  rest_response[1].body.list[i] = rest_found[1][i]

\* "asian restaurant" with an empty answer of the store.
C15_Witness ==
  /\ parts = <<WordPhrase(KW_asian), WordPhrase(W_restaurant)>>
  /\ rest_found = << <<>> >>
  /\ rest_response = <<Response(200, StrBody(Msg("There are no results.", <<>>)))>>

\* The query's one time phrase makes parse_time_constraints raise.
ExpectedParseError ==
  \E i \in TimePhrases :
     \/ /\ PatternMatches(parts[i])
        /\ \/ ~TokInRange(parts[i].a)
           \/ ~TokInRange(parts[i].b)
           \/ StrGreater(Canon(parts[i].a), Canon(parts[i].b))
     \/ /\ parts[i].kind \in {"opens", "closes"}
        /\ ~TokInRange(parts[i].a)

RequiredKeys == {"name", "style", "address", "vegetarian", "openHour", "closeHour"}
EntryAt(i) == load_file.entries[i + 1]
KeysOf(e) == DOMAIN e.fields
ExactKeys(e) == e.kind = "dict" /\ KeysOf(e) = RequiredKeys
\* The entries written with the required keys and valid values.
ValidEntries == {Good1, Good1Again, Good2}
\* The (name, address) a valid entry is stored under.
EntryKey(e) == <<Strip(e.fields["name"].s), Strip(e.fields["address"].s)>>
EventsOf(what) == {k \in 1..Len(load_events) : load_events[k].what = what}
Aborted == EventsOf("abort") # {}
Returned == EventsOf("return") # {}
ReportedAt(i) == {j \in 1..Len(reported) : reported[j].index = i}

\* C17: an entry is accepted only if it is an object with exactly the six
\* required keys; an object with a missing or an unexpected key is rejected
\* without Restaurant being built, and the rejection carries the entry's
\* index with the full sets of missing and of extra fields; an entry that
\* is not an object is rejected, also unbuilt, with its index.
C17_ExactFieldSet ==
  \A k \in EventsOf("validate") :
     /\ load_events[k].outcome = "valid" => ExactKeys(EntryAt(load_events[k].index))
     /\ ~ExactKeys(EntryAt(load_events[k].index)) =>
          /\ load_events[k].outcome = "invalid"
          /\ ~load_events[k].built
          /\ Cardinality(ReportedAt(load_events[k].index)) = 1
          /\ \A j \in ReportedAt(load_events[k].index) :
               IF EntryAt(reported[j].index).kind = "dict"
               THEN /\ reported[j].missing_fields =
                         RequiredKeys \ KeysOf(EntryAt(reported[j].index))
                    /\ reported[j].extra_fields =
                         KeysOf(EntryAt(reported[j].index)) \ RequiredKeys
               ELSE /\ reported[j].missing_fields = {}
                    /\ reported[j].extra_fields = {}
                    /\ reported[j].validation_errors # <<>>

\* The second entry lacks "name" and has "rating": rejected at index 1 with
\* both sets, after the first entry was accepted.
C17_Witness ==
  /\ load_file.kind = "array"
  /\ Len(load_file.entries) >= 2
  /\ EntryAt(0) = Good2
  /\ EntryAt(1) = MissingAndExtra
  /\ \E j \in 1..Len(reported) :
       /\ reported[j].index = 1
       /\ reported[j].missing_fields = {"name"}
       /\ reported[j].extra_fields = {"rating"}
  /\ \E k \in EventsOf("validate") :
       load_events[k].index = 0 /\ load_events[k].outcome = "valid"

InvalidSoFar == {i \in 0..(load_index - 1) : EntryAt(i) \notin ValidEntries}
InsertsOf(i) == {k \in EventsOf("insert") : load_events[k].index = i}
FileFails == load_file.kind # "array"
ConnectFailed == \E k \in EventsOf("abort") : load_events[k].outcome = "connect"

\* C18: an invalid entry is reported and counted and the loop goes on: of
\* the entries passed so far every invalid one was reported and counted,
\* every valid one was handed to the store, and a run that returns has
\* passed all entries; a file that is missing, malformed or not an array,
\* and a failing connect, end the run with code 2 with no entry validated,
\* none inserted and the collection untouched.
C18_RecordFailureContinues ==
  /\ load_file.kind = "array" =>
       /\ stats.invalid = Cardinality(InvalidSoFar)
       /\ Len(reported) = Cardinality(InvalidSoFar)
       /\ \A i \in 0..(load_index - 1) :
            IF EntryAt(i) \in ValidEntries
            THEN InsertsOf(i) # {} /\ ReportedAt(i) = {}
            ELSE InsertsOf(i) = {} /\ ReportedAt(i) # {}
       /\ Returned => load_index = Len(load_file.entries)
       /\ (load_pc = "exit" /\ ~Returned) => Aborted
  /\ FileFails => load_pc \in {"start", "exit"}
  /\ ((FileFails /\ load_pc = "exit") \/ ConnectFailed) =>
       /\ exit_code = <<2>>
       /\ EventsOf("validate") = {}
       /\ EventsOf("insert") = {}
       /\ reported = <<>>
       /\ store = store_before
       /\ stats.inserted = 0 /\ stats.skipped = 0 /\ stats.invalid = 0

\* [missing fields, B]: the first entry counted invalid, the second inserted.
C18_Witness ==
  /\ load_file = [kind |-> "array", entries |-> <<MissingTwo, Good2>>]
  /\ Returned
  /\ stats.invalid = 1
  /\ stats.inserted = 1
  /\ \E i \in 1..Len(store) : store[i].name = <<"B">>

\* C19: main exits with 2 exactly when the run aborted (file not found,
\* invalid JSON, not an array, connect or insert failure), with 1 exactly
\* when load_restaurants returned and some entry was invalid, the valid
\* ones then being in the collection, and with 0 exactly when it returned
\* and no entry was invalid, duplicates skipped or not.
C19_ExitCodeClassifies ==
  /\ load_pc = "exit" <=> exit_code # <<>>
  /\ load_pc = "exit" =>
       /\ exit_code[1] \in {0, 1, 2}
       /\ Aborted # Returned
       /\ FileFails => Aborted
       /\ exit_code[1] = 2 <=> Aborted
       /\ exit_code[1] = 1 <=>
            /\ Returned
            /\ \E i \in 1..Len(load_file.entries) : load_file.entries[i] \notin ValidEntries
       /\ exit_code[1] = 0 <=>
            /\ Returned
            /\ \A i \in 1..Len(load_file.entries) : load_file.entries[i] \in ValidEntries
       /\ Returned =>
            \A i \in 1..Len(load_file.entries) :
               load_file.entries[i] \in ValidEntries =>
                  \E j \in 1..Len(store) :
                     <<store[j].name, store[j].address>> = EntryKey(load_file.entries[i])

\* A file of valid entries of which one was skipped as a duplicate: code 0.
C19_Witness ==
  /\ load_pc = "exit"
  /\ exit_code = <<0>>
  /\ stats.skipped >= 1
  /\ stats.inserted >= 1

\* C20: the entries are passed one at a time in array order, the insert of
\* entry i answered before entry i + 1 is validated; the collection never
\* holds two records of one (name, address); of the valid entries of one
\* (name, address) only the earliest can be inserted, each later one passed
\* is skipped and counted as skipped.
C20_SequentialAndUnique ==
  /\ \A k \in EventsOf("validate") :
       /\ load_events[k].index = Cardinality({j \in EventsOf("validate") : j < k})
       /\ \A j \in 1..(k - 1) :
            load_events[j].what \in {"validate", "insert"} =>
               load_events[j].index < load_events[k].index
       /\ \A i \in 0..(load_events[k].index - 1) :
            EntryAt(i) \in ValidEntries => \E j \in InsertsOf(i) : j < k
  /\ \A k \in EventsOf("insert") :
       /\ k > 1
       /\ load_events[k - 1].what = "validate"
       /\ load_events[k - 1].index = load_events[k].index
       /\ load_events[k - 1].outcome = "valid"
  /\ \A i, j \in 1..Len(store) :
       (store[i].name = store[j].name /\ store[i].address = store[j].address) => i = j
  /\ \A k \in EventsOf("insert") :
       (\E i \in 0..(load_events[k].index - 1) :
           /\ EntryAt(i) \in ValidEntries
           /\ EntryKey(EntryAt(i)) = EntryKey(EntryAt(load_events[k].index)))
         => load_events[k].outcome = "skipped"
  /\ stats.skipped =
       Cardinality({k \in EventsOf("insert") : load_events[k].outcome = "skipped"})
  /\ stats.inserted =
       Cardinality({k \in EventsOf("insert") : load_events[k].outcome = "inserted"})

\* ["A" at "X", " A" at "X "] into an empty collection: the first inserted,
\* the second skipped.
C20_Witness ==
  /\ load_file = [kind |-> "array", entries |-> <<Good1, Good1Again>>]
  /\ store_before = <<>>
  /\ Len(store) = 1
  /\ \E k \in InsertsOf(0) : load_events[k].outcome = "inserted"
  /\ \E k \in InsertsOf(1) : load_events[k].outcome = "skipped"
  /\ stats.skipped = 1

\* ------------------------------------------------------------------------
\* Properties of process_query called side by side (SpecConc)
\* ------------------------------------------------------------------------
\* The result is what process_query gives on the query alone, with the
\* clock reading the call took (with any reading when it took none).
AsAlone(l) ==
  \E c \in ClockReadings :
     /\ l.clock \in {<<>>, <<get_current_time(c[1], c[2])>>}
     /\ l.ret = process_query(l.query, get_current_time(c[1], c[2]))

\* C21: however the statements of side-by-side calls of process_query
\* interleave, each call that has returned has the result of the call run
\* alone on its query with its clock reading, and the globals the calls
\* read (STYLES) are as the module was loaded: no call writes them.
C21_InvocationsIndependent ==
  /\ module_state = [STYLES |-> STYLES]
  /\ \A i \in Callers :
       invocations[i].pc = "returned" => AsAlone(invocations[i])

\* "asian restaurant" has returned while "vegetarian ITALIAN", begun before
\* that return, stands between its style step and its time step; once both
\* have returned each has its own style.
C21_Witness ==
  /\ invocations[1].query = JoinPhrases(<<WordPhrase(KW_vegetarian), WordPhrase(W_ITALIAN)>>)
  /\ invocations[2].query = JoinPhrases(<<WordPhrase(KW_asian), WordPhrase(W_restaurant)>>)
  /\ invocations[1].pc = "parse_time_constraints"
  /\ invocations[1].style = <<V_Italian>>
  /\ invocations[2].pc = "returned"
  /\ invocations[2].ret.val.filter[1]["style"] = V_Asian
  /\ invocations[2].ret.val.filter[1]["vegetarian"] = S_no

\* ------------------------------------------------------------------------
\* Properties of the loader's counters (SpecLoad)
\* ------------------------------------------------------------------------
CounterKeys == {"inserted", "skipped", "invalid"}
Accounted(st) == st.inserted + st.skipped + st.invalid

\* Exactly one of the three counters is one higher, the others and total
\* are as they were.
OneCounterUp(before, after) ==
  \E key \in CounterKeys : after = [before EXCEPT ![key] = before[key] + 1]

\* The counters after the entries whose turn of the loop is over.
CountersAfterEntries ==
  /\ Accounted(stats) = load_index
  /\ stats.invalid = Cardinality(InvalidSoFar)
  /\ stats.inserted + stats.skipped = load_index - Cardinality(InvalidSoFar)
  /\ Returned => /\ load_file.kind = "array"
                 /\ Accounted(stats) = stats.total
                 /\ stats.total = Len(load_file.entries)

\* The turn of one entry ends with one counter raised; no other step of the
\* loader touches the three counters.
CountersPerEntry ==
  /\ load_index' = load_index + 1 => OneCounterUp(stats, stats')
  /\ load_index' = load_index =>
       \A key \in CounterKeys : stats'[key] = stats[key]
  /\ load_index' \in {load_index, load_index + 1}

\* C22: in load_restaurants inserted + skipped + invalid is the number of
\* entries processed so far, the turn of each entry raises exactly one of the
\* three counters by one, and when the function returns
\* inserted + skipped + invalid = total = the length of the input array.
C22_CountersAccountForEntries ==
  /\ [](CountersAfterEntries)
  /\ [][CountersPerEntry]_vars

\* A load of three entries returned with one inserted, one skipped and one
\* invalid.
C22_Witness ==
  /\ Returned
  /\ Len(load_file.entries) = 3
  /\ stats = [inserted |-> 1, skipped |-> 1, invalid |-> 1, total |-> 3]
====
